---- MODULE Spec2Model ----
(***************************************************************************)
(* Deployment orchestration of cloud-run-mcp: one deploy / deployImage     *)
(* request, from argument validation to the returned service, against a    *)
(* nondeterministic environment (filesystem, Cloud Run, Cloud Build,       *)
(* Cloud Storage, Artifact Registry, Service Usage).                       *)
(*                                                                         *)
(* Each action is one step of lib/deployment/deployer.js (deploy,          *)
(* deployImage, deployWithZip, deployWithBuild, deployToCloudRun), of      *)
(* lib/cloud-api/build.js (triggerCloudBuild), of                          *)
(* lib/deployment/source-processor.js or of lib/cloud-api/helpers.js       *)
(* (callWithRetry).  The variable pc is the position of the single async   *)
(* call chain; exception handlers (catch / finally) are positions too.     *)
(*                                                                         *)
(* The specifications share the variables: Spec is the whole request,      *)
(* SpecRetry is callWithRetry alone with its clock and timers,             *)
(* SpecPreflight is ensureApisEnabled step by step against the project's   *)
(* APIs and billing, SpecBuild is triggerCloudBuild alone, SpecConcurrent  *)
(* is several deploy requests for one project interleaved at their awaits, *)
(* SpecMetadata is makeFileDeploymentMetadata on every kind of input, and  *)
(* SpecClientsSequential / SpecClients are calls of the client factories   *)
(* of lib/clients.js, one after the other / interleaved, and SpecOAuth is  *)
(* oauthMiddleware of lib/middleware/oauth.js on one HTTP request.         *)
(***************************************************************************)
EXTENDS Integers, Sequences, FiniteSets, TLC

VARIABLES
  req,          \* the request object handed to deploy / deployImage
  pc,           \* position in the async call chain
  outcome,      \* "running" | "resolved" | "rejected" | "exited"
  clients,      \* TRUE once the context's clients have been constructed
  calls,        \* log of remote calls, in issue order
  progress,     \* log of warn / error events sent through logAndProgress
  retries,      \* callWithRetry: local let retries of the pending call (0 outside)
  error,        \* the exception being thrown / propagated (NoError if none)
  dryRunError,  \* deployToCloudRun: the catch parameter dryRunError (NoError outside)
  meta,         \* result of makeFileDeploymentMetadata
  path,         \* "none" | "direct" | "build" | "image": the running strategy
  run,          \* number of deployToCloudRun executions started so far
  exists,       \* deployToCloudRun: local const exists
  invokerIamDisabled, \* deployToCloudRun: service.invokerIamDisabled is set
  serviceExists, \* triggerCloudBuild: local const serviceExists
  tempDir,      \* deployWithZip: local let tempDir (0 = undefined)
  fsDirs,       \* staging directories present on the filesystem
  archiveMiB,   \* size of the direct-source archive buffer, in MiB
  polls,        \* number of getBuild polls of the current build
  buildStatus,  \* status of the last polled build
  producedBy,   \* strategy whose deployToCloudRun returned the service
  now,          \* the clock, in ms (callWithRetry studied with its timers)
  wake,         \* callWithRetry: time at which the pending setTimeout is due
  apis,         \* ensureApisEnabled: the parameter apis
  project,      \* the project's actual state: enabled APIs, billing
  accounts,     \* ensureApisEnabled: local const accounts
  stage,        \* ensureApisEnabled: the block being executed
  apiIndex,     \* ensureApisEnabled: position of the for loop in apis
  attempt,      \* ensureApisEnabled: 1 = first try of an API, 2 = its retry
  invocation,   \* number of ensureApisEnabled invocations started
  tasks,        \* concurrent deploy requests: each one's position and locals
  bucket,       \* objects of the project's source bucket, by object name
  staged,       \* files staged on disk: << directory, request that wrote >>
  clientCache,  \* lib/clients.js: const clients, the cached client per service and key
  getClientCalls \* calls of getClient so far: arguments, position, result

\* the clock of callWithRetry
clockVars == << now, wake >>

\* state of ensureApisEnabled and of the project it inspects
preflightVars == << apis, project, accounts, stage, apiIndex, attempt,
                    invocation >>

\* state shared by deploy requests that run at the same time
concurrentVars == << tasks, bucket, staged, clientCache, getClientCalls >>

\* state of the deployment orchestration alone
deployVars == << req, dryRunError, clients, meta, path, run, exists,
                 invokerIamDisabled, serviceExists, tempDir, fsDirs,
                 archiveMiB, polls, buildStatus, producedBy, concurrentVars >>

vars == << req, dryRunError, pc, outcome, clients, calls, progress, retries,
           error, meta, path, run, exists, invokerIamDisabled, serviceExists,
           tempDir, fsDirs, archiveMiB, polls, buildStatus, producedBy,
           clockVars, preflightVars, concurrentVars >>

----------------------------------------------------------------------------
(* Bounds of the model *)

\* polls of one build after which the environment reports a terminal status
MaxPolls == 2

\* longest list of APIs handed to ensureApisEnabled
MaxApis == 3

\* most billing accounts listBillingAccounts returns
MaxAccounts == 2

\* consecutive invocations of ensureApisEnabled on the same project
MaxInvocations == 2

\* log entries one getEntries answer holds at most
MaxEntries == 2

\* deploy requests running at the same time
MaxTasks == 2

\* milliseconds the clock advances while concurrent requests run
MaxClock == 1

\* most files a folder handed to the helpers holds
MaxFolderFiles == 2

\* most entries a flat file list handed to the helpers holds
MaxListed == 2

\* calls of the client factories in one run
MaxCalls == 3

(* Program constants *)

\* callWithRetry: const maxRetries = 7
maxRetries == 7

\* deployWithZip: MAX_ALLOWED_DIRECT_SOURCE_SIZE_BYTES, in MiB
MAX_ALLOWED_DIRECT_SOURCE_SIZE_MIB == 250

\* build.js: setTimeout(resolve, 5000) between two polls of a build
POLL_INTERVAL_MS == 5000

\* build.js: const DELAY_WAIT_FOR_BUILD_LOGS = 10000
DELAY_WAIT_FOR_BUILD_LOGS == 10000

----------------------------------------------------------------------------
(* Values *)

NoError == [code |-> 0, msg |-> "none"]

\* gRPC status codes used by the code: 3 INVALID_ARGUMENT, 7 PERMISSION_DENIED;
\* 13 stands for every other code.  msg "empty" is a missing or empty message.
ErrorCodes == {3, 7, 13}
ErrorMsgs == {"empty", "invokeriamdisabled", "iam policy violation", "other"}

\* errors a Cloud Run dry run can fail with
DryRunErrors == [code : ErrorCodes, msg : ErrorMsgs]

\* errors of every other remote call (only code 7 or not matters)
CallErrors == [code : {7, 13}, msg : {"other"}]

\* error of a local step (filesystem, archiver) or of an unwrapped call
PlainError == [code |-> 13, msg |-> "other"]

\* new Error(`...${e.message}`): the code is lost, the message is embedded
Wrapped(e) == [code |-> 0, msg |-> e.msg]

TerminalStatuses == {"SUCCESS", "FAILURE", "INTERNAL_ERROR", "TIMEOUT", "CANCELLED"}
NonTerminalStatuses == {"QUEUED", "WORKING"}

\* names of the files the helpers look for, in spellings that tell the
\* lookups apart, and one name they ignore
DockerfileNames == {"Dockerfile", "dockerfile", "DOCKERFILE"}
ManifestNames == {"package.json", "requirements.txt", "pyproject.toml"}
FileNames == DockerfileNames \cup ManifestNames \cup {"index.js"}

\* a path is the sequence of its components below the source root: a file at
\* the root, or one level down
Paths == { << n >> : n \in FileNames } \cup
         { << "sub", n >> : n \in {"Dockerfile", "package.json"} }

\* one element of the files array: the path of a directory with the files
\* below it, the path of a file, or an object { filename, content } (path
\* << >>: the object has no filename)
Entry(kind, p, contents) == [kind |-> kind, path |-> p, contents |-> contents]
Dir(contents) == Entry("dir", << "app" >>, contents)
Listed(p) == Entry("string", p, {})
FileObject(p) == Entry("object", p, {})

\* the files argument (absent, not an array, or an array of entries) and
\* whether the filesystem it names tells apart names that differ in case
Files(shape, entries, caseSensitive) ==
  [shape |-> shape, entries |-> entries, caseSensitive |-> caseSensitive]

BadFiles == { Files("absent", << >>, TRUE), Files("notArray", << >>, TRUE),
              Files("array", << >>, TRUE) }

\* the files a representative source holds at its root
Chosen(d, n, p) ==
  { << "index.js" >> } \cup (IF d THEN { << "Dockerfile" >> } ELSE {})
    \cup (IF n THEN { << "package.json" >> } ELSE {})
    \cup (IF p THEN { << "requirements.txt" >> } ELSE {})

\* the same files, listed one by one
ListOf(d, n, p) ==
  << Listed(<< "index.js" >>) >>
    \o (IF d THEN << Listed(<< "Dockerfile" >>) >> ELSE << >>)
    \o (IF n THEN << Listed(<< "package.json" >>) >> ELSE << >>)
    \o (IF p THEN << Listed(<< "requirements.txt" >>) >> ELSE << >>)

\* inputs of a whole request: one folder or a flat list, with or without a
\* Dockerfile, a Node.js manifest, a Python manifest
GoodFiles ==
  { Files("array", << Dir(Chosen(d, n, p)) >>, TRUE) :
      d \in BOOLEAN, n \in BOOLEAN, p \in BOOLEAN } \cup
  { Files("array", ListOf(d, n, p), TRUE) :
      d \in BOOLEAN, n \in BOOLEAN, p \in BOOLEAN }

DeployRequests ==
  [op : {"deploy"}, projectId : BOOLEAN, serviceName : BOOLEAN,
   files : BadFiles \cup GoodFiles, imageUrl : {FALSE}, skipIamCheck : BOOLEAN]

DeployImageRequests ==
  [op : {"deployImage"}, projectId : BOOLEAN, serviceName : BOOLEAN,
   files : { Files("absent", << >>, TRUE) },
   imageUrl : BOOLEAN, skipIamCheck : BOOLEAN]

NoMeta == [hasDockerfile |-> FALSE, runtime |-> "undefined"]

\* one entry of the call log
Call(name, by, dry, iam, res) ==
  [call |-> name, by |-> by, path |-> path, run |-> run,
   dry |-> dry, iam |-> iam, res |-> res]

\* the last entry of the call log gets its result
Completed(res) ==
  [calls EXCEPT ![Len(calls)] = [@ EXCEPT !.res = res]]

Event(level, tag) == [level |-> level, tag |-> tag]

ServiceUsageApi == "serviceusage.googleapis.com"
BillingApi == "cloudbilling.googleapis.com"

\* REQUIRED_APIS.SOURCE_DEPLOY and REQUIRED_APIS.IMAGE_DEPLOY
REQUIRED_APIS_SOURCE_DEPLOY ==
  << "serviceusage.googleapis.com", "iam.googleapis.com",
     "storage.googleapis.com", "cloudbuild.googleapis.com",
     "artifactregistry.googleapis.com", "run.googleapis.com" >>
REQUIRED_APIS_IMAGE_DEPLOY ==
  << "serviceusage.googleapis.com", "run.googleapis.com" >>

\* mutant: deployImage asks for the APIs of a source deployment
RequiredApis_alwaysSource(op) == REQUIRED_APIS_SOURCE_DEPLOY

\* the API list deploy / deployImage hands to ensureApisEnabled
RequiredApis(op) ==
  IF op = "deploy" THEN REQUIRED_APIS_SOURCE_DEPLOY
  ELSE REQUIRED_APIS_IMAGE_DEPLOY

\* an error-level progress event whose text holds the message of error e
ErrorEvent(tag, e) == Event("error", tag) @@ [reason |-> e]

\* the project while ensureApisEnabled is not under study
NoProject == [enabled |-> {}, billingEnabled |-> FALSE]

----------------------------------------------------------------------------
(* Pure helpers of lib/deployment/helpers.js *)

\* String.prototype.toLowerCase on the names above
toLowerCase(name) == IF name \in DockerfileNames THEN "dockerfile" ELSE name

\* path.basename
basename(p) == p[Len(p)]

\* files.length === 1 && typeof files[0] === 'string' &&
\* fs.statSync(files[0]).isDirectory() (false when statSync throws)
isFolder(files) ==
  /\ Len(files.entries) = 1
  /\ files.entries[1].kind = "dir"

\* fs.existsSync(path.join(files[0], name)): a lookup in the folder itself;
\* a filesystem that is not case sensitive matches names that differ in case
existsSync(files, name) ==
  \E p \in files.entries[1].contents :
    /\ Len(p) = 1
    /\ IF files.caseSensitive THEN p[1] = name
       ELSE toLowerCase(p[1]) = toLowerCase(name)

checkIfDockerFileExists(files) ==
  IF isFolder(files)
  THEN existsSync(files, "Dockerfile") \/ existsSync(files, "dockerfile")
  ELSE \E i \in DOMAIN files.entries :
         LET file == files.entries[i]
         IN \/ /\ file.kind \in {"string", "dir"}
               /\ toLowerCase(basename(file.path)) = "dockerfile"
            \/ /\ file.kind = "object"
               /\ file.path # << >>
               /\ toLowerCase(basename(file.path)) = "dockerfile"

checkIfNodeJsRuntime(files) == existsSync(files, "package.json")

checkIfPythonRuntime(files) ==
  existsSync(files, "requirements.txt") \/ existsSync(files, "pyproject.toml")

\* mutant: only the Node.js manifest is looked for
getDeploymentAttrs_nodeOnly(files) ==
  IF ~isFolder(files) \/ ~checkIfNodeJsRuntime(files)
  THEN "undefined"
  ELSE "nodejs"

\* RUNTIMES.PYTHON / RUNTIMES.NODEJS, or getEmptyDeploymentAttrs() (runtime:
\* undefined) for an input that is no folder or a folder without a manifest
getDeploymentAttrs(files) ==
  IF ~isFolder(files) \/ ~(checkIfNodeJsRuntime(files) \/ checkIfPythonRuntime(files))
  THEN "undefined"
  ELSE IF checkIfPythonRuntime(files) THEN "python" ELSE "nodejs"

makeFileDeploymentMetadata(files) ==
  [hasDockerfile |-> checkIfDockerFileExists(files),
   runtime |-> getDeploymentAttrs(files)]

\* mutant: the Dockerfile is not looked at
canDeployWithoutBuild_ignoresDockerfile(m) ==
  m.runtime # "undefined"


canDeployWithoutBuild(m) ==
  ~m.hasDockerfile /\ m.runtime # "undefined"

----------------------------------------------------------------------------
\* callWithRetry's timers are not under study
ClockIdle ==
  /\ now = 0
  /\ wake = 0

\* ensureApisEnabled's steps are not under study
PreflightIdle ==
  /\ apis = << >>
  /\ project = NoProject
  /\ accounts = << >>
  /\ stage = "none"
  /\ apiIndex = 0
  /\ attempt = 1
  /\ invocation = 0

\* no two requests are studied together
ConcurrentIdle ==
  /\ tasks = << >>
  /\ bucket = << >>
  /\ staged = {}
  /\ clientCache = {}
  /\ getClientCalls = << >>

\* no deployment is running
DeployIdle ==
  /\ dryRunError = NoError
  /\ clients = FALSE
  /\ meta = NoMeta
  /\ path = "none"
  /\ run = 0
  /\ exists = FALSE
  /\ invokerIamDisabled = FALSE
  /\ serviceExists = FALSE
  /\ tempDir = 0
  /\ fsDirs = {}
  /\ archiveMiB = 0
  /\ polls = 0
  /\ buildStatus = "none"
  /\ producedBy = "none"
  /\ ConcurrentIdle

Init ==
  /\ req \in DeployRequests \cup DeployImageRequests
  /\ pc = "start"
  /\ outcome = "running"
  /\ clients = FALSE
  /\ calls = << >>
  /\ progress = << >>
  /\ retries = 0
  /\ error = NoError
  /\ dryRunError = NoError
  /\ meta = NoMeta
  /\ path = "none"
  /\ run = 0
  /\ exists = FALSE
  /\ invokerIamDisabled = FALSE
  /\ serviceExists = FALSE
  /\ tempDir = 0
  /\ fsDirs = {}
  /\ archiveMiB = 0
  /\ polls = 0
  /\ buildStatus = "none"
  /\ producedBy = "none"
  /\ ClockIdle
  /\ PreflightIdle
  /\ ConcurrentIdle

----------------------------------------------------------------------------
(* Where a thrown exception lands *)

\* an exception leaving deployWithZip's try block runs its finally block; one
\* leaving deployWithBuild or deployToCloudRun (image deploy) reaches the
\* outer catch of deploy / deployImage
Handler == IF path = "direct" THEN "zip_finally" ELSE "facade_catch"

\* mutant: every failure is retried, whatever its code
callWithRetryRetries_anyCode(e) == retries < maxRetries

\* mutant: the last retry is never made
callWithRetryRetries_offByOne(e) == e.code = 7 /\ retries < maxRetries - 1

\* callWithRetry: if (error.code === 7 && retries < maxRetries)
callWithRetryRetries(e) == e.code = 7 /\ retries < maxRetries

\* positions at which a call wrapped in callWithRetry is pending
WrappedWait == {"run_dry_wait", "run_real_wait", "tcb_dry_wait",
                "tcb_submit_wait", "tcb_poll_wait", "tcb_logs_wait",
                "pf_get_wait", "pf_enable_wait"}

----------------------------------------------------------------------------
(* deploy / deployImage: argument validation *)

ThirdFieldMissing ==
  IF req.op = "deploy"
  THEN req.files.shape \in {"absent", "notArray"} \/ req.files.entries = << >>
  ELSE ~req.imageUrl

\* if (!projectId) ... throw; if (!serviceName) ... throw
ValidateRequired ==
  /\ pc = "start"
  /\ ~req.projectId \/ ~req.serviceName
  /\ progress' = Append(progress, ErrorEvent("validation", PlainError))
  /\ error' = PlainError
  /\ outcome' = "rejected"
  /\ pc' = "done"
  /\ UNCHANGED << clockVars, preflightVars, concurrentVars >>
  /\ UNCHANGED << req, dryRunError, clients, calls, retries, meta, path, run,
                  exists, invokerIamDisabled, serviceExists, tempDir, fsDirs,
                  archiveMiB, polls, buildStatus, producedBy >>

\* if (!files || !Array.isArray(files) || files.length === 0) / if (!imageUrl):
\* process.exit(1) when the runtime has process.exit (typeof process !==
\* 'undefined' && process.exit), else throw
ValidateFilesOrImage ==
  /\ pc = "start"
  /\ req.projectId /\ req.serviceName
  /\ ThirdFieldMissing
  /\ progress' = Append(progress, ErrorEvent("validation", PlainError))
  /\ error' = PlainError
  /\ \E hasProcessExit \in BOOLEAN :
       outcome' = IF hasProcessExit THEN "exited" ELSE "rejected"
  /\ pc' = "done"
  /\ UNCHANGED << clockVars, preflightVars, concurrentVars >>
  /\ UNCHANGED << req, dryRunError, clients, calls, retries, meta, path, run,
                  exists, invokerIamDisabled, serviceExists, tempDir, fsDirs,
                  archiveMiB, polls, buildStatus, producedBy >>

ValidateOk ==
  /\ pc = "start"
  /\ req.projectId /\ req.serviceName
  /\ ~ThirdFieldMissing
  /\ pc' = "construct"
  /\ UNCHANGED << clockVars, preflightVars, concurrentVars >>
  /\ UNCHANGED << req, dryRunError, outcome, clients, calls, progress,
                  retries, error, meta, path, run, exists, invokerIamDisabled,
                  serviceExists, tempDir, fsDirs, archiveMiB, polls,
                  buildStatus, producedBy >>

\* const context = { storage: new Storage(...), runClient: ..., ... }
ConstructContext ==
  /\ pc = "construct"
  /\ clients' = TRUE
  /\ pc' = "preflight"
  /\ UNCHANGED << clockVars, preflightVars, concurrentVars >>
  /\ UNCHANGED << req, dryRunError, outcome, calls, progress, retries, error,
                  meta, path, run, exists, invokerIamDisabled, serviceExists,
                  tempDir, fsDirs, archiveMiB, polls, buildStatus, producedBy >>

\* mutant: a preflight failure is swallowed and the deployment goes on
EnsureApisEnabled_ignoresFailure ==
  /\ pc = "preflight"
  /\ \E ok \in BOOLEAN :
       calls' = Append(calls, Call("ensureApisEnabled", req.op, FALSE, FALSE,
                                   IF ok THEN "ok" ELSE "fail")
                              @@ [apis |-> RequiredApis(req.op)])
  /\ pc' = IF req.op = "deploy" THEN "metadata" ELSE "run_enter"
  /\ path' = IF req.op = "deploy" THEN path ELSE "image"
  /\ UNCHANGED << clockVars, preflightVars, concurrentVars >>
  /\ UNCHANGED << req, dryRunError, outcome, clients, progress, retries,
                  error, meta, run, exists, invokerIamDisabled,
                  serviceExists, tempDir, fsDirs, archiveMiB, polls,
                  buildStatus, producedBy >>

\* await ensureApisEnabled(context, projectId, REQUIRED_APIS.x, progressCallback)
EnsureApisEnabled ==
  /\ pc = "preflight"
  /\ \E ok \in BOOLEAN :
       /\ calls' = Append(calls, Call("ensureApisEnabled", req.op, FALSE, FALSE,
                                      IF ok THEN "ok" ELSE "fail")
                                 @@ [apis |-> RequiredApis(req.op)])
       /\ IF ok
          THEN /\ pc' = IF req.op = "deploy" THEN "metadata" ELSE "run_enter"
               /\ path' = IF req.op = "deploy" THEN path ELSE "image"
               /\ UNCHANGED error
          ELSE /\ pc' = "facade_catch"
               /\ error' = PlainError
               /\ UNCHANGED path
  /\ UNCHANGED << clockVars, preflightVars, concurrentVars >>
  /\ UNCHANGED << req, dryRunError, outcome, clients, progress, retries, meta,
                  run, exists, invokerIamDisabled, serviceExists, tempDir,
                  fsDirs, archiveMiB, polls, buildStatus, producedBy >>

\* const { hasDockerfile, deploymentAttrs } = makeFileDeploymentMetadata(files);
\* if (canDeployWithoutBuild(...)) try { deployWithZip } ... deployWithBuild
SelectDeploymentPath ==
  /\ pc = "metadata"
  /\ meta' = makeFileDeploymentMetadata(req.files)
  /\ IF canDeployWithoutBuild(meta')
     THEN pc' = "zip_prepare" /\ path' = "direct"
     ELSE pc' = "build_bucket" /\ path' = "build"
  /\ UNCHANGED << clockVars, preflightVars, concurrentVars >>
  /\ UNCHANGED << req, dryRunError, outcome, clients, calls, progress,
                  retries, error, run, exists, invokerIamDisabled,
                  serviceExists, tempDir, fsDirs, archiveMiB, polls,
                  buildStatus, producedBy >>

\* mutant: the direct-source failure is rethrown instead of falling back
FallbackCatch_rethrows ==
  /\ pc = "fallback_catch"
  /\ pc' = "facade_catch"
  /\ UNCHANGED << clockVars, preflightVars, concurrentVars >>
  /\ UNCHANGED << req, dryRunError, outcome, clients, calls, progress,
                  retries, error, meta, path, run, exists,
                  invokerIamDisabled, serviceExists, tempDir, fsDirs,
                  archiveMiB, polls, buildStatus, producedBy >>

\* catch (error) { logAndProgress(`Failed to deploy directly from source ...`,
\* 'warn') } and fall through to deployWithBuild
FallbackCatch ==
  /\ pc = "fallback_catch"
  /\ progress' = Append(progress, Event("warn", "fallback"))
  /\ error' = NoError
  /\ path' = "build"
  /\ pc' = "build_bucket"
  /\ UNCHANGED << clockVars, preflightVars, concurrentVars >>
  /\ UNCHANGED << req, dryRunError, outcome, clients, calls, retries, meta,
                  run, exists, invokerIamDisabled, serviceExists, tempDir,
                  fsDirs, archiveMiB, polls, buildStatus, producedBy >>

\* return service
FacadeReturn ==
  /\ pc = "facade_return"
  /\ outcome' = "resolved"
  /\ pc' = "done"
  /\ UNCHANGED << clockVars, preflightVars, concurrentVars >>
  /\ UNCHANGED << req, dryRunError, clients, calls, progress, retries, error,
                  meta, path, run, exists, invokerIamDisabled, serviceExists,
                  tempDir, fsDirs, archiveMiB, polls, buildStatus, producedBy >>

\* mutant: the outer catch rethrows without reporting
FacadeCatch_silent ==
  /\ pc = "facade_catch"
  /\ outcome' = "rejected"
  /\ pc' = "done"
  /\ UNCHANGED << clockVars, preflightVars, concurrentVars >>
  /\ UNCHANGED << req, dryRunError, clients, calls, progress, retries, error,
                  meta, path, run, exists, invokerIamDisabled, serviceExists,
                  tempDir, fsDirs, archiveMiB, polls, buildStatus, producedBy >>

\* catch (error) { logAndProgress(`Deployment Failed: ${error.message}`,
\* 'error'); throw error }
FacadeCatch ==
  /\ pc = "facade_catch"
  /\ progress' = Append(progress, ErrorEvent("deploymentFailed", error))
  /\ outcome' = "rejected"
  /\ pc' = "done"
  /\ UNCHANGED << clockVars, preflightVars, concurrentVars >>
  /\ UNCHANGED << req, dryRunError, clients, calls, retries, error, meta,
                  path, run, exists, invokerIamDisabled, serviceExists, tempDir,
                  fsDirs, archiveMiB, polls, buildStatus, producedBy >>

----------------------------------------------------------------------------
(* deployWithZip and lib/deployment/source-processor.js *)

\* sizes an archive buffer can have, in MiB: below, at and above the limit
ArchiveSizes == {1, MAX_ALLOWED_DIRECT_SOURCE_SIZE_MIB,
                 MAX_ALLOWED_DIRECT_SOURCE_SIZE_MIB + 1}

\* the staging directory `${sourceName}-${Date.now()}` of this request
NewDir == 1

\* tempDir = await prepareSourceDirectory(files): mkdir, copy, return tempDir
PrepareSourceDirectory ==
  /\ pc = "zip_prepare"
  /\ fsDirs' = fsDirs \cup {NewDir}
  /\ tempDir' = NewDir
  /\ pc' = "zip_install"
  /\ UNCHANGED << clockVars, preflightVars, concurrentVars >>
  /\ UNCHANGED << req, dryRunError, outcome, clients, calls, progress,
                  retries, error, meta, path, run, exists, invokerIamDisabled,
                  serviceExists, archiveMiB, polls, buildStatus, producedBy >>

\* prepareSourceDirectory: fsp.mkdir rejects; nothing was created
PrepareSourceDirectoryMkdirFails ==
  /\ pc = "zip_prepare"
  /\ error' = PlainError
  /\ pc' = "zip_finally"
  /\ UNCHANGED << clockVars, preflightVars, concurrentVars >>
  /\ UNCHANGED << req, dryRunError, outcome, clients, calls, progress,
                  retries, meta, path, run, exists, invokerIamDisabled,
                  serviceExists, tempDir, fsDirs, archiveMiB, polls,
                  buildStatus, producedBy >>

\* prepareSourceDirectory: fsp.stat / cp / copyFile rejects after mkdir; the
\* function throws before `return tempDir`, so the caller's tempDir stays
\* undefined
PrepareSourceDirectoryCopyFails ==
  /\ pc = "zip_prepare"
  /\ fsDirs' = fsDirs \cup {NewDir}
  /\ error' = PlainError
  /\ pc' = "zip_finally"
  /\ UNCHANGED << clockVars, preflightVars, concurrentVars >>
  /\ UNCHANGED << req, dryRunError, outcome, clients, calls, progress,
                  retries, meta, path, run, exists, invokerIamDisabled,
                  serviceExists, tempDir, archiveMiB, polls, buildStatus,
                  producedBy >>

\* await installDependencies(tempDir, deploymentAttrs): npm failures are
\* caught and logged, the function never throws
InstallDependencies ==
  /\ pc = "zip_install"
  /\ pc' = "zip_archive"
  /\ UNCHANGED << clockVars, preflightVars, concurrentVars >>
  /\ UNCHANGED << req, dryRunError, outcome, clients, calls, progress,
                  retries, error, meta, path, run, exists, invokerIamDisabled,
                  serviceExists, tempDir, fsDirs, archiveMiB, polls,
                  buildStatus, producedBy >>

\* const archiveBuffer = await zipFiles([tempDir], true, progressCallback)
ZipStagedDirectory ==
  /\ pc = "zip_archive"
  /\ \E size \in ArchiveSizes : archiveMiB' = size
  /\ pc' = "zip_size"
  /\ UNCHANGED << clockVars, preflightVars, concurrentVars >>
  /\ UNCHANGED << req, dryRunError, outcome, clients, calls, progress,
                  retries, error, meta, path, run, exists, invokerIamDisabled,
                  serviceExists, tempDir, fsDirs, polls, buildStatus,
                  producedBy >>

ZipStagedDirectoryFails ==
  /\ pc = "zip_archive"
  /\ error' = PlainError
  /\ pc' = "zip_finally"
  /\ UNCHANGED << clockVars, preflightVars, concurrentVars >>
  /\ UNCHANGED << req, dryRunError, outcome, clients, calls, progress,
                  retries, meta, path, run, exists, invokerIamDisabled,
                  serviceExists, tempDir, fsDirs, archiveMiB, polls,
                  buildStatus, producedBy >>

\* mutant: the limit compared with is twice the allowed size
ArchiveTooLarge_doubleLimit(size) ==
  size > 2 * MAX_ALLOWED_DIRECT_SOURCE_SIZE_MIB

\* archiveBuffer.length > MAX_ALLOWED_DIRECT_SOURCE_SIZE_BYTES
ArchiveTooLarge(size) == size > MAX_ALLOWED_DIRECT_SOURCE_SIZE_MIB

\* if (archiveBuffer.length > MAX...) { logAndProgress(errorMsg, 'warn');
\* throw new Error('Archive size exceeds limit') }
CheckArchiveSize ==
  /\ pc = "zip_size"
  /\ IF ArchiveTooLarge(archiveMiB)
     THEN /\ progress' = Append(progress, Event("warn", "archiveSize"))
          /\ error' = PlainError
          /\ pc' = "zip_finally"
     ELSE /\ pc' = "zip_bucket"
          /\ UNCHANGED << progress, error >>
  /\ UNCHANGED << clockVars, preflightVars, concurrentVars >>
  /\ UNCHANGED << req, dryRunError, outcome, clients, calls, retries, meta,
                  path, run, exists, invokerIamDisabled, serviceExists, tempDir,
                  fsDirs, archiveMiB, polls, buildStatus, producedBy >>

\* mutant: the result of deployWithZip is not returned, deploy falls through
\* to deployWithBuild even after a successful direct-source deployment
CleanupTempDirectory_fallsThrough ==
  /\ pc = "zip_finally"
  /\ fsDirs' = IF tempDir = 0 THEN fsDirs ELSE fsDirs \ {tempDir}
  /\ pc' = "fallback_catch"
  /\ UNCHANGED << clockVars, preflightVars, concurrentVars >>
  /\ UNCHANGED << req, dryRunError, outcome, clients, calls, progress,
                  retries, error, meta, path, run, exists,
                  invokerIamDisabled, serviceExists, tempDir, archiveMiB,
                  polls, buildStatus, producedBy >>

\* finally { await cleanupTempDirectory(tempDir) }: returns at once when
\* dirPath is undefined, else removes the directory if it exists; then the
\* try block's result (return service / the exception) takes effect
CleanupTempDirectory ==
  /\ pc = "zip_finally"
  /\ fsDirs' = IF tempDir = 0 THEN fsDirs ELSE fsDirs \ {tempDir}
  /\ pc' = IF error = NoError THEN "facade_return" ELSE "fallback_catch"
  /\ UNCHANGED << clockVars, preflightVars, concurrentVars >>
  /\ UNCHANGED << req, dryRunError, outcome, clients, calls, progress,
                  retries, error, meta, path, run, exists, invokerIamDisabled,
                  serviceExists, tempDir, archiveMiB, polls, buildStatus,
                  producedBy >>

\* cleanupTempDirectory: fsp.rm rejects; catch (cleanupError) only logs
CleanupTempDirectoryRmFails ==
  /\ pc = "zip_finally"
  /\ tempDir # 0 /\ tempDir \in fsDirs
  /\ pc' = IF error = NoError THEN "facade_return" ELSE "fallback_catch"
  /\ UNCHANGED << clockVars, preflightVars, concurrentVars >>
  /\ UNCHANGED << req, dryRunError, outcome, clients, calls, progress,
                  retries, error, meta, path, run, exists, invokerIamDisabled,
                  serviceExists, tempDir, fsDirs, archiveMiB, polls,
                  buildStatus, producedBy >>

----------------------------------------------------------------------------
(* Storage and Artifact Registry steps of deployWithZip / deployWithBuild *)

\* const bucket = await ensureStorageBucketExists(context, bucketName, ...)
EnsureStorageBucketExists ==
  /\ pc \in {"zip_bucket", "build_bucket"}
  /\ \E ok \in BOOLEAN :
       /\ calls' = Append(calls, Call("ensureStorageBucketExists",
                                      IF path = "direct" THEN "deployWithZip"
                                      ELSE "deployWithBuild",
                                      FALSE, FALSE, IF ok THEN "ok" ELSE "fail"))
       /\ IF ok
          THEN /\ pc' = IF path = "direct" THEN "zip_upload" ELSE "build_archive"
               /\ UNCHANGED error
          ELSE /\ pc' = Handler
               /\ error' = PlainError
  /\ UNCHANGED << clockVars, preflightVars, concurrentVars >>
  /\ UNCHANGED << req, dryRunError, outcome, clients, progress, retries, meta,
                  path, run, exists, invokerIamDisabled, serviceExists, tempDir,
                  fsDirs, archiveMiB, polls, buildStatus, producedBy >>

\* deployWithBuild: const archiveBuffer = await zipFiles(files, false, ...)
ZipFiles ==
  /\ pc = "build_archive"
  /\ \E ok \in BOOLEAN :
       IF ok
       THEN pc' = "build_upload" /\ UNCHANGED error
       ELSE pc' = Handler /\ error' = PlainError
  /\ UNCHANGED << clockVars, preflightVars, concurrentVars >>
  /\ UNCHANGED << req, dryRunError, outcome, clients, calls, progress,
                  retries, meta, path, run, exists, invokerIamDisabled,
                  serviceExists, tempDir, fsDirs, archiveMiB, polls,
                  buildStatus, producedBy >>

\* await uploadToStorageBucket(context, bucket, archiveBuffer, archiveName, ...)
UploadToStorageBucket ==
  /\ pc \in {"zip_upload", "build_upload"}
  /\ \E ok \in BOOLEAN :
       /\ calls' = Append(calls, Call("uploadToStorageBucket",
                                      IF path = "direct" THEN "deployWithZip"
                                      ELSE "deployWithBuild",
                                      FALSE, FALSE, IF ok THEN "ok" ELSE "fail"))
       /\ IF ok
          THEN /\ pc' = IF path = "direct" THEN "run_enter" ELSE "build_repo"
               /\ UNCHANGED error
          ELSE /\ pc' = Handler
               /\ error' = PlainError
  /\ UNCHANGED << clockVars, preflightVars, concurrentVars >>
  /\ UNCHANGED << req, dryRunError, outcome, clients, progress, retries, meta,
                  path, run, exists, invokerIamDisabled, serviceExists, tempDir,
                  fsDirs, archiveMiB, polls, buildStatus, producedBy >>

\* await ensureArtifactRegistryRepoExists(context, projectId, region, ...)
EnsureArtifactRegistryRepoExists ==
  /\ pc = "build_repo"
  /\ \E ok \in BOOLEAN :
       /\ calls' = Append(calls, Call("ensureArtifactRegistryRepoExists",
                                      "deployWithBuild", FALSE, FALSE,
                                      IF ok THEN "ok" ELSE "fail"))
       /\ IF ok
          THEN pc' = "tcb_exists" /\ UNCHANGED error
          ELSE pc' = Handler /\ error' = PlainError
  /\ UNCHANGED << clockVars, preflightVars, concurrentVars >>
  /\ UNCHANGED << req, dryRunError, outcome, clients, progress, retries, meta,
                  path, run, exists, invokerIamDisabled, serviceExists, tempDir,
                  fsDirs, archiveMiB, polls, buildStatus, producedBy >>

----------------------------------------------------------------------------
(* deployToCloudRun *)

\* mutant: the heuristic is applied whether or not skipIamCheck was given
IamHeuristicApplies_ignoresSkipIamCheck(skipIamCheck, e) ==
  /\ e.msg # "empty"
  /\ \/ e.msg = "invokeriamdisabled"
     \/ e.msg = "iam policy violation"
     \/ e.code = 3

\* the dry-run catch block's heuristic:
\*   skipIamCheck && dryRunError.message &&
\*   (message includes 'invokeriamdisabled' || message includes
\*    'iam policy violation' || dryRunError.code === 3)
IamHeuristicApplies(skipIamCheck, e) ==
  /\ skipIamCheck
  /\ e.msg # "empty"
  /\ \/ e.msg = "invokeriamdisabled"
     \/ e.msg = "iam policy violation"
     \/ e.code = 3

\* exists ? updateService : createService
MutationFor(e) == IF e THEN "updateService" ELSE "createService"

\* mutant: the service object always carries invokerIamDisabled
DeployToCloudRunEnter_alwaysSetsFlag ==
  /\ pc = "run_enter"
  /\ run' = run + 1
  /\ invokerIamDisabled' = TRUE
  /\ pc' = "run_exists"
  /\ UNCHANGED << clockVars, preflightVars, concurrentVars >>
  /\ UNCHANGED << req, dryRunError, outcome, clients, calls, progress,
                  retries, error, meta, path, exists, serviceExists, tempDir,
                  fsDirs, archiveMiB, polls, buildStatus, producedBy >>

\* entry of deployToCloudRun: build the service object;
\* if (skipIamCheck) service.invokerIamDisabled = true
DeployToCloudRunEnter ==
  /\ pc = "run_enter"
  /\ run' = run + 1
  /\ invokerIamDisabled' = req.skipIamCheck
  /\ pc' = "run_exists"
  /\ UNCHANGED << clockVars, preflightVars, concurrentVars >>
  /\ UNCHANGED << req, dryRunError, outcome, clients, calls, progress,
                  retries, error, meta, path, exists, serviceExists, tempDir,
                  fsDirs, archiveMiB, polls, buildStatus, producedBy >>

\* const exists = await checkCloudRunServiceExists(...): true, false when the
\* service is not found (code 5), any other failure is thrown
CheckCloudRunServiceExists ==
  /\ pc = "run_exists"
  /\ \E res \in {"exists", "notFound", "fail"} :
       /\ calls' = Append(calls, Call("checkCloudRunServiceExists",
                                      "deployToCloudRun", FALSE, FALSE, res))
       /\ IF res = "fail"
          THEN /\ error' = PlainError
               /\ pc' = "run_catch"
               /\ UNCHANGED exists
          ELSE /\ exists' = (res = "exists")
               /\ pc' = "run_dry"
               /\ UNCHANGED error
  /\ UNCHANGED << clockVars, preflightVars, concurrentVars >>
  /\ UNCHANGED << req, dryRunError, outcome, clients, progress, retries, meta,
                  path, run, invokerIamDisabled, serviceExists, tempDir, fsDirs,
                  archiveMiB, polls, buildStatus, producedBy >>

\* mutant: the validateOnly call is left out
DryRun_skipped ==
  /\ pc = "run_dry"
  /\ pc' = "run_real"
  /\ UNCHANGED << clockVars, preflightVars, concurrentVars >>
  /\ UNCHANGED << req, dryRunError, outcome, clients, calls, progress,
                  retries, error, meta, path, run, exists,
                  invokerIamDisabled, serviceExists, tempDir, fsDirs,
                  archiveMiB, polls, buildStatus, producedBy >>

\* callWithRetry(() => runClient.updateService / createService(
\*   { service: dryRunServiceConfig, validateOnly: true }))
DryRun ==
  /\ pc = "run_dry"
  /\ calls' = Append(calls, Call(MutationFor(exists), "deployToCloudRun", TRUE,
                                 invokerIamDisabled, "pending"))
  /\ retries' = 0
  /\ pc' = "run_dry_wait"
  /\ UNCHANGED << clockVars, preflightVars, concurrentVars >>
  /\ UNCHANGED << req, dryRunError, outcome, clients, progress, error, meta,
                  path, run, exists, invokerIamDisabled, serviceExists, tempDir,
                  fsDirs, archiveMiB, polls, buildStatus, producedBy >>

DryRunSucceeds ==
  /\ pc = "run_dry_wait"
  /\ calls' = Completed("ok")
  /\ pc' = "run_real"
  /\ retries' = 0
  /\ UNCHANGED << clockVars, preflightVars, concurrentVars >>
  /\ UNCHANGED << req, dryRunError, outcome, clients, progress, error, meta, path, run, exists, invokerIamDisabled,
                  serviceExists, tempDir, fsDirs, archiveMiB, polls,
                  buildStatus, producedBy >>

\* the dry run rejects and callWithRetry rethrows: catch (dryRunError)
DryRunFails ==
  /\ pc = "run_dry_wait"
  /\ \E e \in DryRunErrors :
       /\ ~callWithRetryRetries(e)
       /\ error' = e
       /\ dryRunError' = e
  /\ calls' = Completed("fail")
  /\ progress' = Append(progress, Event("warn", "dryRunFailed"))
  /\ pc' = "run_dry_catch"
  /\ retries' = 0
  /\ UNCHANGED << clockVars, preflightVars, concurrentVars >>
  /\ UNCHANGED << req, outcome, clients, meta, path,
                  run, exists, invokerIamDisabled, serviceExists, tempDir,
                  fsDirs, archiveMiB, polls, buildStatus, producedBy >>

\* the body of catch (dryRunError): drop the flag and go on, or rethrow
DryRunCatch ==
  /\ pc = "run_dry_catch"
  /\ IF IamHeuristicApplies(req.skipIamCheck, error)
     THEN /\ progress' = Append(progress, Event("warn", "withoutInvokerIamDisabled"))
          /\ invokerIamDisabled' = FALSE
          /\ error' = NoError
          /\ pc' = "run_real"
     ELSE /\ progress' = Append(progress, Event("error", "dryRunValidation"))
          /\ error' = Wrapped(error)
          /\ pc' = "run_catch"
          /\ UNCHANGED invokerIamDisabled
  /\ UNCHANGED << clockVars, preflightVars, concurrentVars >>
  /\ UNCHANGED << req, dryRunError, outcome, clients, calls, retries, meta,
                  path, run, exists, serviceExists, tempDir, fsDirs, archiveMiB,
                  polls, buildStatus, producedBy >>

\* mutant: the built image is deployed under the tag the build was asked for
Containers_requestedTag(deploymentType) ==
  IF deploymentType = "direct" THEN "zippedSourceContainer" ELSE "imageUrl"

\* const containers = deploymentType === NO_BUILD ? [zippedSourceContainer]
\* : [{ image: imgUrl }], where imgUrl is buildResult.results.images[0].name
\* in deployWithBuild and the request's imageUrl in deployImage
Containers(deploymentType) ==
  IF deploymentType = "direct" THEN "zippedSourceContainer"
  ELSE IF deploymentType = "build" THEN "results.images[0].name"
  ELSE "imageUrl"

\* callWithRetry(() => runClient.updateService({ service }) /
\*   createService({ parent, service, serviceId }))
RealMutation ==
  /\ pc = "run_real"
  /\ calls' = Append(calls, Call(MutationFor(exists), "deployToCloudRun", FALSE,
                                 invokerIamDisabled, "pending")
                            @@ [containers |-> Containers(path)])
  /\ retries' = 0
  /\ pc' = "run_real_wait"
  /\ UNCHANGED << clockVars, preflightVars, concurrentVars >>
  /\ UNCHANGED << req, dryRunError, outcome, clients, progress, error, meta,
                  path, run, exists, invokerIamDisabled, serviceExists, tempDir,
                  fsDirs, archiveMiB, polls, buildStatus, producedBy >>

RealMutationSucceeds ==
  /\ pc = "run_real_wait"
  /\ calls' = Completed("ok")
  /\ pc' = "run_lro"
  /\ retries' = 0
  /\ UNCHANGED << clockVars, preflightVars, concurrentVars >>
  /\ UNCHANGED << req, dryRunError, outcome, clients, progress, error, meta, path, run, exists, invokerIamDisabled,
                  serviceExists, tempDir, fsDirs, archiveMiB, polls,
                  buildStatus, producedBy >>

RealMutationFails ==
  /\ pc = "run_real_wait"
  /\ \E e \in CallErrors :
       /\ ~callWithRetryRetries(e)
       /\ error' = e
  /\ calls' = Completed("fail")
  /\ pc' = "run_catch"
  /\ retries' = 0
  /\ UNCHANGED << clockVars, preflightVars, concurrentVars >>
  /\ UNCHANGED << req, dryRunError, outcome, clients, progress, meta,
                  path, run, exists, invokerIamDisabled, serviceExists, tempDir,
                  fsDirs, archiveMiB, polls, buildStatus, producedBy >>

\* const [response] = await operation.promise(); return response
AwaitOperation ==
  /\ pc = "run_lro"
  /\ \E ok \in BOOLEAN :
       /\ calls' = Append(calls, Call("operation.promise", "deployToCloudRun",
                                      FALSE, invokerIamDisabled,
                                      IF ok THEN "ok" ELSE "fail"))
       /\ IF ok
          THEN /\ producedBy' = path
               /\ pc' = IF path = "direct" THEN "zip_finally" ELSE "facade_return"
               /\ dryRunError' = NoError
               /\ UNCHANGED error
          ELSE /\ error' = PlainError
               /\ pc' = "run_catch"
               /\ UNCHANGED << producedBy, dryRunError >>
  /\ UNCHANGED << clockVars, preflightVars, concurrentVars >>
  /\ UNCHANGED << req, outcome, clients, progress, retries, meta,
                  path, run, exists, invokerIamDisabled, serviceExists, tempDir,
                  fsDirs, archiveMiB, polls, buildStatus >>

\* catch (error) { logAndProgress(errorMessage, 'error'); throw error }
DeployToCloudRunCatch ==
  /\ pc = "run_catch"
  /\ progress' = Append(progress, Event("error", "deployToCloudRun"))
  /\ pc' = Handler
  /\ dryRunError' = NoError
  /\ UNCHANGED << clockVars, preflightVars, concurrentVars >>
  /\ UNCHANGED << req, outcome, clients, calls, retries, error,
                  meta, path, run, exists, invokerIamDisabled, serviceExists,
                  tempDir, fsDirs, archiveMiB, polls, buildStatus, producedBy >>

\* callWithRetry: the pending call failed with code 7 and retries <
\* maxRetries: retries++, sleep the backoff, invoke fn again
CallWithRetryRetries ==
  /\ pc \in WrappedWait
  /\ callWithRetryRetries([code |-> 7, msg |-> "other"])
  /\ retries' = retries + 1
  /\ UNCHANGED << clockVars, preflightVars, concurrentVars >>
  /\ UNCHANGED << req, dryRunError, pc, outcome, clients, calls, progress,
                  error, meta, path, run, exists, invokerIamDisabled,
                  serviceExists, tempDir, fsDirs, archiveMiB, polls,
                  buildStatus, producedBy >>

----------------------------------------------------------------------------
(* triggerCloudBuild (lib/cloud-api/build.js), called by deployWithBuild *)

\* const serviceExists = await checkCloudRunServiceExists(...), outside the
\* try block: a failure is thrown as it is
BuildCheckServiceExists ==
  /\ pc = "tcb_exists"
  /\ \E res \in {"exists", "notFound", "fail"} :
       /\ calls' = Append(calls, Call("checkCloudRunServiceExists",
                                      "triggerCloudBuild", FALSE, FALSE, res))
       /\ IF res = "fail"
          THEN /\ error' = PlainError
               /\ pc' = Handler
               /\ UNCHANGED serviceExists
          ELSE /\ serviceExists' = (res = "exists")
               /\ pc' = "tcb_dry"
               /\ UNCHANGED error
  /\ UNCHANGED << clockVars, preflightVars, concurrentVars >>
  /\ UNCHANGED << req, dryRunError, outcome, clients, progress, retries, meta,
                  path, run, exists, invokerIamDisabled, tempDir, fsDirs,
                  archiveMiB, polls, buildStatus, producedBy >>

\* mutant: the dry run before the build uses a kind resolved earlier in the
\* request instead of the one resolved by triggerCloudBuild's own check
BuildDryRun_staleKind ==
  /\ pc = "tcb_dry"
  /\ calls' = Append(calls, Call(MutationFor(exists), "triggerCloudBuild",
                                 TRUE, FALSE, "pending"))
  /\ retries' = 0
  /\ pc' = "tcb_dry_wait"
  /\ UNCHANGED << clockVars, preflightVars, concurrentVars >>
  /\ UNCHANGED << req, dryRunError, outcome, clients, progress, error, meta,
                  path, run, exists, invokerIamDisabled, serviceExists,
                  tempDir, fsDirs, archiveMiB, polls, buildStatus,
                  producedBy >>

\* callWithRetry(() => runClient.updateService / createService(
\*   { service: servicePatch, validateOnly: true }))
BuildDryRun ==
  /\ pc = "tcb_dry"
  /\ calls' = Append(calls, Call(MutationFor(serviceExists), "triggerCloudBuild",
                                 TRUE, FALSE, "pending"))
  /\ retries' = 0
  /\ pc' = "tcb_dry_wait"
  /\ UNCHANGED << clockVars, preflightVars, concurrentVars >>
  /\ UNCHANGED << req, dryRunError, outcome, clients, progress, error, meta,
                  path, run, exists, invokerIamDisabled, serviceExists, tempDir,
                  fsDirs, archiveMiB, polls, buildStatus, producedBy >>

BuildDryRunSucceeds ==
  /\ pc = "tcb_dry_wait"
  /\ calls' = Completed("ok")
  /\ pc' = "tcb_submit"
  /\ retries' = 0
  /\ UNCHANGED << clockVars, preflightVars, concurrentVars >>
  /\ UNCHANGED << req, dryRunError, outcome, clients, progress, error, meta, path, run, exists, invokerIamDisabled,
                  serviceExists, tempDir, fsDirs, archiveMiB, polls,
                  buildStatus, producedBy >>

\* mutant: the catch block logs the failed dry run and does not throw
BuildDryRunFails_swallowed ==
  /\ pc = "tcb_dry_wait"
  /\ \E e \in CallErrors : ~callWithRetryRetries(e)
  /\ calls' = Completed("fail")
  /\ progress' = Append(progress, Event("error", "buildDryRun"))
  /\ pc' = "tcb_submit"
  /\ retries' = 0
  /\ UNCHANGED << clockVars, preflightVars, concurrentVars >>
  /\ UNCHANGED << req, dryRunError, outcome, clients, error, meta, path,
                  run, exists, invokerIamDisabled, serviceExists, tempDir,
                  fsDirs, archiveMiB, polls, buildStatus, producedBy >>

\* catch (err) { logAndProgress(`Dry-run validation failed ...`, 'error');
\* throw new Error(`Dry-run deployment failed: ${err.message}`) }
BuildDryRunFails ==
  /\ pc = "tcb_dry_wait"
  /\ \E e \in CallErrors :
       /\ ~callWithRetryRetries(e)
       /\ error' = Wrapped(e)
  /\ calls' = Completed("fail")
  /\ progress' = Append(progress, Event("error", "buildDryRun"))
  /\ pc' = Handler
  /\ retries' = 0
  /\ UNCHANGED << clockVars, preflightVars, concurrentVars >>
  /\ UNCHANGED << req, dryRunError, outcome, clients, meta, path,
                  run, exists, invokerIamDisabled, serviceExists, tempDir,
                  fsDirs, archiveMiB, polls, buildStatus, producedBy >>

\* mutant: the else branch is lost, buildpackBuild is always set
BuildRequest_alwaysBuildpack(hasDockerfile) ==
  [dockerBuild |-> hasDockerfile, buildpackBuild |-> TRUE]

\* const request = {...}; if (hasDockerfile) request.dockerBuild = {};
\* else request.buildpackBuild = {};  (TRUE: the request has the field)
BuildRequest(hasDockerfile) ==
  LET request == [dockerBuild |-> FALSE, buildpackBuild |-> FALSE]
  IN IF hasDockerfile
     THEN [request EXCEPT !.dockerBuild = TRUE]
     ELSE [request EXCEPT !.buildpackBuild = TRUE]

\* callWithRetry(() => buildsClient.submitBuild(request))
SubmitBuild ==
  /\ pc = "tcb_submit"
  /\ calls' = Append(calls,
                     Call("submitBuild", "triggerCloudBuild", FALSE, FALSE,
                          "pending")
                     @@ [request |-> BuildRequest(meta.hasDockerfile)])
  /\ retries' = 0
  /\ pc' = "tcb_submit_wait"
  /\ UNCHANGED << clockVars, preflightVars, concurrentVars >>
  /\ UNCHANGED << req, dryRunError, outcome, clients, progress, error, meta,
                  path, run, exists, invokerIamDisabled, serviceExists, tempDir,
                  fsDirs, archiveMiB, polls, buildStatus, producedBy >>

SubmitBuildSucceeds ==
  /\ pc = "tcb_submit_wait"
  /\ calls' = Completed("ok")
  /\ polls' = 0
  /\ buildStatus' = "none"
  /\ pc' = "tcb_poll"
  /\ retries' = 0
  /\ UNCHANGED << clockVars, preflightVars, concurrentVars >>
  /\ UNCHANGED << req, dryRunError, outcome, clients, progress, error, meta, path, run, exists, invokerIamDisabled,
                  serviceExists, tempDir, fsDirs, archiveMiB, producedBy >>

SubmitBuildFails ==
  /\ pc = "tcb_submit_wait"
  /\ \E e \in CallErrors :
       /\ ~callWithRetryRetries(e)
       /\ error' = e
  /\ calls' = Completed("fail")
  /\ pc' = Handler
  /\ retries' = 0
  /\ UNCHANGED << clockVars, preflightVars, concurrentVars >>
  /\ UNCHANGED << req, dryRunError, outcome, clients, progress, meta,
                  path, run, exists, invokerIamDisabled, serviceExists, tempDir,
                  fsDirs, archiveMiB, polls, buildStatus, producedBy >>

\* while (true) { callWithRetry(() => cloudBuildClient.getBuild({ name })) ...
GetBuild ==
  /\ pc = "tcb_poll"
  /\ calls' = Append(calls, Call("getBuild", "triggerCloudBuild", FALSE, FALSE,
                                 "pending"))
  /\ retries' = 0
  /\ pc' = "tcb_poll_wait"
  /\ UNCHANGED << clockVars, preflightVars, concurrentVars >>
  /\ UNCHANGED << req, dryRunError, outcome, clients, progress, error, meta,
                  path, run, exists, invokerIamDisabled, serviceExists, tempDir,
                  fsDirs, archiveMiB, polls, buildStatus, producedBy >>

\* mutant: the loop is left as soon as the build is no longer queued
IsTerminal_stopsOnWorking(status) == status # "QUEUED"

\* the loop's exit test
IsTerminal(status) ==
  status \in {"SUCCESS", "FAILURE", "INTERNAL_ERROR", "TIMEOUT", "CANCELLED"}

\* what the call log keeps of an answered poll: the status the build
\* reported when triggerCloudBuild is studied alone, "ok" within a whole
\* deploy request (buildStatus holds the latest status in both)
Polled(status) == IF req.op = "triggerCloudBuild" THEN status ELSE "ok"

\* mutant: the service is deployed as soon as the build is reported working
GetBuildSucceeds_deploysEarly ==
  /\ pc = "tcb_poll_wait"
  /\ \E st \in TerminalStatuses \cup NonTerminalStatuses :
       /\ st \in NonTerminalStatuses => polls < MaxPolls
       /\ buildStatus' = st
       /\ calls' = Completed(Polled(st))
       /\ pc' = IF IsTerminal(st)
                THEN IF st = "SUCCESS" THEN "run_enter" ELSE "tcb_failed"
                ELSE IF st = "WORKING" THEN "run_enter" ELSE "tcb_sleep"
  /\ polls' = polls + 1
  /\ retries' = 0
  /\ UNCHANGED << clockVars, preflightVars, concurrentVars >>
  /\ UNCHANGED << req, dryRunError, outcome, clients, progress, error, meta, path, run, exists, invokerIamDisabled,
                  serviceExists, tempDir, fsDirs, archiveMiB, producedBy >>

\* getBuild answers; break on a terminal status, else log and sleep 5 s
GetBuildSucceeds ==
  /\ pc = "tcb_poll_wait"
  /\ \E st \in TerminalStatuses \cup NonTerminalStatuses :
       /\ st \in NonTerminalStatuses => polls < MaxPolls
       /\ buildStatus' = st
       /\ calls' = Completed(Polled(st))
       /\ pc' = IF IsTerminal(st)
                THEN IF st = "SUCCESS" THEN "run_enter" ELSE "tcb_failed"
                ELSE "tcb_sleep"
  /\ polls' = polls + 1
  /\ retries' = 0
  /\ UNCHANGED << clockVars, preflightVars, concurrentVars >>
  /\ UNCHANGED << req, dryRunError, outcome, clients, progress, error, meta, path, run, exists, invokerIamDisabled,
                  serviceExists, tempDir, fsDirs, archiveMiB, producedBy >>

GetBuildFails ==
  /\ pc = "tcb_poll_wait"
  /\ \E e \in CallErrors :
       /\ ~callWithRetryRetries(e)
       /\ error' = e
  /\ calls' = Completed("fail")
  /\ pc' = Handler
  /\ retries' = 0
  /\ UNCHANGED << clockVars, preflightVars, concurrentVars >>
  /\ UNCHANGED << req, dryRunError, outcome, clients, progress, meta,
                  path, run, exists, invokerIamDisabled, serviceExists, tempDir,
                  fsDirs, archiveMiB, polls, buildStatus, producedBy >>

\* a timer of triggerCloudBuild that has fired after ms milliseconds
Timer(ms) ==
  Call("setTimeout", "triggerCloudBuild", FALSE, FALSE, "fired") @@ [ms |-> ms]

\* mutant: the loop gives up after the first sleep, as on a timeout
PollSleep_timesOut ==
  /\ pc = "tcb_sleep"
  /\ calls' = Append(calls, Timer(POLL_INTERVAL_MS))
  /\ error' = PlainError
  /\ pc' = Handler
  /\ UNCHANGED << clockVars, preflightVars, concurrentVars >>
  /\ UNCHANGED << req, dryRunError, outcome, clients, progress,
                  retries, meta, path, run, exists, invokerIamDisabled,
                  serviceExists, tempDir, fsDirs, archiveMiB, polls,
                  buildStatus, producedBy >>

\* mutant: the polling interval doubles with every poll
PollSleep_backsOff ==
  /\ pc = "tcb_sleep"
  /\ calls' = Append(calls, Timer(POLL_INTERVAL_MS * 2^(polls - 1)))
  /\ pc' = "tcb_poll"
  /\ UNCHANGED << clockVars, preflightVars, concurrentVars >>
  /\ UNCHANGED << req, dryRunError, outcome, clients, progress,
                  retries, error, meta, path, run, exists, invokerIamDisabled,
                  serviceExists, tempDir, fsDirs, archiveMiB, polls,
                  buildStatus, producedBy >>

\* await new Promise((resolve) => setTimeout(resolve, 5000))
PollSleep ==
  /\ pc = "tcb_sleep"
  /\ calls' = Append(calls, Timer(POLL_INTERVAL_MS))
  /\ pc' = "tcb_poll"
  /\ UNCHANGED << clockVars, preflightVars, concurrentVars >>
  /\ UNCHANGED << req, dryRunError, outcome, clients, progress,
                  retries, error, meta, path, run, exists, invokerIamDisabled,
                  serviceExists, tempDir, fsDirs, archiveMiB, polls,
                  buildStatus, producedBy >>

\* else branch: logAndProgress(failureMessage, 'error'); then, inside the try,
\* await new Promise((resolve) => setTimeout(resolve, DELAY_WAIT_FOR_BUILD_LOGS))
WaitForBuildLogs ==
  /\ pc = "tcb_failed"
  /\ progress' = Append(progress, Event("error", "buildFailed"))
  /\ calls' = Append(calls, Timer(DELAY_WAIT_FOR_BUILD_LOGS))
  /\ pc' = "tcb_logs_delay"
  /\ UNCHANGED << clockVars, preflightVars, concurrentVars >>
  /\ UNCHANGED << req, dryRunError, outcome, clients, retries, error, meta,
                  path, run, exists, invokerIamDisabled, serviceExists, tempDir,
                  fsDirs, archiveMiB, polls, buildStatus, producedBy >>

\* callWithRetry(() => loggingClient.getEntries({ filter, orderBy:
\*   'timestamp desc', pageSize: BUILD_LOGS_LINES_TO_FETCH }))
FetchBuildLogs ==
  /\ pc = "tcb_logs_delay"
  /\ calls' = Append(calls, Call("getEntries", "triggerCloudBuild", FALSE, FALSE,
                                 "pending"))
  /\ retries' = 0
  /\ pc' = "tcb_logs_wait"
  /\ UNCHANGED << clockVars, preflightVars, concurrentVars >>
  /\ UNCHANGED << req, dryRunError, outcome, clients, progress, error, meta,
                  path, run, exists, invokerIamDisabled, serviceExists, tempDir,
                  fsDirs, archiveMiB, polls, buildStatus, producedBy >>

\* what entry.data of a log entry can be; "undefined": the entry has no data
LogData == {"step 1", "step 2", "undefined"}

\* what getEntries can answer, newest entry first
LogEntries ==
  UNION { [1..n -> [data : LogData]] : n \in 0..MaxEntries }

\* the answers the request at hand draws from: every answer when
\* triggerCloudBuild is studied alone, one two-line answer within a whole
\* deploy request
FetchedEntries ==
  IF req.op = "triggerCloudBuild"
  THEN LogEntries
  ELSE { << [data |-> "step 2"], [data |-> "step 1"] >> }

Reverse(s) == [i \in 1..Len(s) |-> s[Len(s) + 1 - i]]

\* mutant: the lines are kept in the order of retrieval
logLines_retrievalOrder(entries) ==
  [i \in 1..Len(entries) |->
     IF entries[i].data = "undefined" THEN "" ELSE entries[i].data]

\* const logLines = entries.reverse().map((entry) => entry.data || '')
logLines(entries) ==
  LET reversed == Reverse(entries)
  IN [i \in 1..Len(reversed) |->
        IF reversed[i].data = "undefined" THEN "" ELSE reversed[i].data]

\* let buildLogsSnippet = `\n\nRefer to Log URL for full details: ${logUrl}`
DefaultSnippet ==
  << "Refer", "to", "Log", "URL", "for", "full", "details:", "<logUrl>" >>

\* mutant: the snippet starts empty and is set from the entries only
buildLogsSnippet_noDefault(fetched, entries) ==
  IF fetched /\ Len(entries) > 0
  THEN << "Last", ToString(Len(logLines(entries))), "log", "lines", "from",
          "build", "<buildId>", ":" >> \o logLines(entries)
  ELSE << >>

\* the snippet when the try block is left: replaced only if (entries &&
\* entries.length > 0), by `\n\nLast ${logLines.length} log lines from build
\* ${buildId}:\n${logLines.join('\n')}`
buildLogsSnippet(fetched, entries) ==
  IF fetched /\ Len(entries) > 0
  THEN << "Last", ToString(Len(logLines(entries))), "log", "lines", "from",
          "build", "<buildId>", ":" >> \o logLines(entries)
  ELSE DefaultSnippet

\* new Error(`Build ${buildId} failed.${buildLogsSnippet}`)
BuildFailedError(snippet) ==
  PlainError @@ [text |-> << "Build", "<buildId>", "failed", "." >> \o snippet]

\* the log fetch answers (entries, a warning if there are none) or fails (the
\* failure is caught and a warning logged); either way:
\* throw new Error(`Build ${buildId} failed.${buildLogsSnippet}`)
BuildFailed ==
  /\ pc = "tcb_logs_wait"
  /\ \E fetched \in BOOLEAN :
     \E entries \in IF fetched THEN FetchedEntries ELSE { << >> } :
       /\ ~fetched => \E e \in CallErrors : ~callWithRetryRetries(e)
       /\ calls' = [calls EXCEPT ![Len(calls)] =
                      [@ EXCEPT !.res = IF fetched THEN "ok" ELSE "fail"]
                      @@ [entries |-> entries]]
       /\ progress' = IF ~fetched
                      THEN Append(progress, Event("warn", "logFetchFailed"))
                      ELSE IF Len(entries) = 0
                           THEN Append(progress, Event("warn", "noLogEntries"))
                           ELSE progress
       /\ error' = BuildFailedError(buildLogsSnippet(fetched, entries))
  /\ pc' = Handler
  /\ retries' = 0
  /\ UNCHANGED << clockVars, preflightVars, concurrentVars >>
  /\ UNCHANGED << req, dryRunError, outcome, clients, meta,
                  path, run, exists, invokerIamDisabled, serviceExists, tempDir,
                  fsDirs, archiveMiB, polls, buildStatus, producedBy >>

----------------------------------------------------------------------------
Next ==
  \/ ValidateRequired
  \/ ValidateFilesOrImage
  \/ ValidateOk
  \/ ConstructContext
  \/ EnsureApisEnabled
  \/ SelectDeploymentPath
  \/ FallbackCatch
  \/ FacadeReturn
  \/ FacadeCatch
  \/ PrepareSourceDirectory
  \/ PrepareSourceDirectoryMkdirFails
  \/ PrepareSourceDirectoryCopyFails
  \/ InstallDependencies
  \/ ZipStagedDirectory
  \/ ZipStagedDirectoryFails
  \/ CheckArchiveSize
  \/ CleanupTempDirectory
  \/ CleanupTempDirectoryRmFails
  \/ EnsureStorageBucketExists
  \/ ZipFiles
  \/ UploadToStorageBucket
  \/ EnsureArtifactRegistryRepoExists
  \/ DeployToCloudRunEnter
  \/ CheckCloudRunServiceExists
  \/ DryRun
  \/ DryRunSucceeds
  \/ DryRunFails
  \/ DryRunCatch
  \/ RealMutation
  \/ RealMutationSucceeds
  \/ RealMutationFails
  \/ AwaitOperation
  \/ DeployToCloudRunCatch
  \/ CallWithRetryRetries
  \/ BuildCheckServiceExists
  \/ BuildDryRun
  \/ BuildDryRunSucceeds
  \/ BuildDryRunFails
  \/ SubmitBuild
  \/ SubmitBuildSucceeds
  \/ SubmitBuildFails
  \/ GetBuild
  \/ GetBuildSucceeds
  \/ GetBuildFails
  \/ PollSleep
  \/ WaitForBuildLogs
  \/ FetchBuildLogs
  \/ BuildFailed

Spec == Init /\ [][Next]_vars

----------------------------------------------------------------------------
(* Reading the call log *)

IsMutation(c) == c.call \in {"createService", "updateService"}

\* indexes of the non-validateOnly createService / updateService calls of
\* deployToCloudRun execution r
RealMutations(r) ==
  { i \in DOMAIN calls : /\ IsMutation(calls[i]) /\ ~calls[i].dry
                         /\ calls[i].by = "deployToCloudRun" /\ calls[i].run = r }

\* indexes of the validateOnly calls of deployToCloudRun execution r
DryRuns(r) ==
  { i \in DOMAIN calls : /\ IsMutation(calls[i]) /\ calls[i].dry
                         /\ calls[i].by = "deployToCloudRun" /\ calls[i].run = r }

\* indexes of the existence checks made by function f in execution r
ExistenceChecks(f, r) ==
  { i \in DOMAIN calls : /\ calls[i].call = "checkCloudRunServiceExists"
                         /\ calls[i].by = f /\ calls[i].run = r }

AllExistenceChecks ==
  { i \in DOMAIN calls : calls[i].call = "checkCloudRunServiceExists" }

\* the kind of mutation an existence-check result resolves to
KindOf(res) == IF res = "exists" THEN "updateService" ELSE "createService"

HasEvent(level, tag) ==
  \E k \in DOMAIN progress :
    progress[k].level = level /\ progress[k].tag = tag

\* the direct-source strategy was started in this request
DirectAttempted ==
  path = "direct" \/ HasEvent("warn", "fallback") \/ producedBy = "direct"

----------------------------------------------------------------------------
(* C1: in every deployToCloudRun execution, each non-validateOnly           *)
(* createService / updateService is preceded, in the same execution, by a  *)
(* completed validateOnly call of the kind the existence check resolved:   *)
(* no real mutation without a preceding dry run.                           *)
C1_DryRunBeforeRealMutation ==
  \A i \in DOMAIN calls :
    (IsMutation(calls[i]) /\ ~calls[i].dry) =>
      \E k, j \in DOMAIN calls :
        /\ k < j /\ j < i
        /\ k \in ExistenceChecks("deployToCloudRun", calls[i].run)
        /\ j \in DryRuns(calls[i].run)
        /\ calls[j].res \in {"ok", "fail"}
        /\ calls[j].call = KindOf(calls[k].res)

\* a real updateService is pending after the dry run of an existing service
C1_Witness ==
  /\ pc = "run_real_wait"
  /\ calls[Len(calls)].call = "updateService"
  /\ ~calls[Len(calls)].dry

----------------------------------------------------------------------------
(* C2: if the dry run fails and the IAM heuristic does not apply           *)
(* (skipIamCheck false, or the error neither matches an IAM message        *)
(* pattern nor is invalid-argument), deployToCloudRun throws the dry-run   *)
(* failure and that execution issues no real mutation.                     *)

MatchesIamPattern(e) == e.msg \in {"invokeriamdisabled", "iam policy violation"}

UnexplainedDryRunFailure ==
  /\ dryRunError # NoError
  /\ ~req.skipIamCheck \/ (~MatchesIamPattern(dryRunError) /\ dryRunError.code # 3)

C2_UnexplainedDryRunFailureIsFatal ==
  /\ [](UnexplainedDryRunFailure =>
          /\ RealMutations(run) = {}
          /\ pc \in {"run_dry_catch", "run_catch"}
          /\ pc = "run_catch" => error = Wrapped(dryRunError))
  /\ [][(UnexplainedDryRunFailure /\ pc = "run_dry_catch") =>
          (pc' = "run_catch" /\ calls' = calls)]_vars

\* the dry run failed with an unrelated error although skipIamCheck is set,
\* and the failure is on its way to the caller
C2_Witness ==
  /\ pc = "run_catch"
  /\ req.skipIamCheck
  /\ dryRunError = [code |-> 13, msg |-> "other"]
  /\ error = Wrapped(dryRunError)

----------------------------------------------------------------------------
(* C3 (as claimed): whenever skipIamCheck is true and the dry run fails    *)
(* with code 3 or with a message matching the IAM patterns, the flag is    *)
(* dropped and the execution goes on without a second dry run: one real    *)
(* mutation (retries of the same call by callWithRetry are not counted),   *)
(* of the kind the existence check resolved, without invokerIamDisabled.   *)
C3_HeuristicAlwaysDropsFlag ==
  (/\ req.skipIamCheck
   /\ dryRunError # NoError
   /\ dryRunError.code = 3 \/ MatchesIamPattern(dryRunError)
   /\ pc \in {"run_real_wait", "run_lro", "run_catch"})
  => /\ Cardinality(DryRuns(run)) = 1
     /\ Cardinality(RealMutations(run)) = 1
     /\ \A i \in RealMutations(run) :
          /\ ~calls[i].iam
          /\ calls[i].call = MutationFor(exists)

----------------------------------------------------------------------------
(* C4 (as claimed): the existence of the target service is checked exactly *)
(* once per request.                                                       *)
C4_SingleExistenceCheckPerRequest ==
  Cardinality(AllExistenceChecks) <= 1

(* C4 (amended): existence is checked once per Service Deployer execution  *)
(* and once by triggerCloudBuild; every dry run and real mutation uses the *)
(* kind resolved by the check of its own execution, which precedes it.  A  *)
(* deployImage request checks once; a deploy request checks up to three    *)
(* times (direct attempt, build step, deployment of the built image).      *)
C4_KindResolvedOncePerExecution ==
  /\ \A i \in DOMAIN calls :
       IsMutation(calls[i]) =>
         /\ Cardinality(ExistenceChecks(calls[i].by, calls[i].run)) = 1
         /\ \A k \in ExistenceChecks(calls[i].by, calls[i].run) :
              k < i /\ calls[i].call = KindOf(calls[k].res)
  /\ \A i, k \in AllExistenceChecks :
       (calls[i].by = calls[k].by /\ calls[i].run = calls[k].run) => i = k
  /\ req.op = "deployImage" => Cardinality(AllExistenceChecks) <= 1
  /\ Cardinality(AllExistenceChecks) <= 3

\* after a direct-source fallback the build step found the service missing,
\* the deployment of the built image found it present and updates it
C4_Witness ==
  /\ Cardinality(AllExistenceChecks) = 3
  /\ \E i \in ExistenceChecks("triggerCloudBuild", 1) : calls[i].res = "notFound"
  /\ \E k \in ExistenceChecks("deployToCloudRun", 2) : calls[k].res = "exists"
  /\ pc = "run_real_wait"
  /\ calls[Len(calls)].call = "updateService"

----------------------------------------------------------------------------
(* C5 (as claimed): a successful deploy returns a service produced by      *)
(* exactly one path, and the other path issued no real mutation.           *)
C5_OtherPathIssuedNoRealMutation ==
  (req.op = "deploy" /\ outcome = "resolved") =>
    /\ producedBy \in {"direct", "build"}
    /\ \A i \in DOMAIN calls :
         (IsMutation(calls[i]) /\ ~calls[i].dry) => calls[i].path = producedBy

(* C5 (amended): a successful deploy returns a service produced by exactly *)
(* one path.  If the direct path produced it the build path issued no call *)
(* at all; if the build path produced it the direct path returned no       *)
(* service: any real mutation it issued failed or its operation failed.    *)
C5_ExactlyOnePathProducesService ==
  (req.op = "deploy" /\ outcome = "resolved") =>
    /\ producedBy \in {"direct", "build"}
    /\ Cardinality({ i \in DOMAIN calls : /\ calls[i].call = "operation.promise"
                                          /\ calls[i].res = "ok" }) = 1
    /\ \A i \in DOMAIN calls :
         (calls[i].call = "operation.promise" /\ calls[i].res = "ok")
           => calls[i].path = producedBy
    /\ producedBy = "direct" => \A i \in DOMAIN calls : calls[i].path # "build"
    /\ producedBy = "build" =>
         \A i \in RealMutations(1) :
           calls[i].path = "direct" =>
             \/ calls[i].res = "fail"
             \/ \E j \in DOMAIN calls :
                  /\ j > i /\ calls[j].call = "operation.promise"
                  /\ calls[j].run = 1 /\ calls[j].res = "fail"

\* the build path produced the service after the direct path's real
\* mutation had been issued
C5_Witness ==
  /\ outcome = "resolved"
  /\ producedBy = "build"
  /\ \E i \in RealMutations(1) : calls[i].path = "direct"

----------------------------------------------------------------------------
(* C6: when the direct-source attempt fails at any step, deploy emits a    *)
(* warn event and the next thing it runs is the build path; the request    *)
(* then fails only on the build path; once on the build path the request   *)
(* never goes back to a direct-source attempt.                             *)
C6_DirectFailureFallsBackToBuild ==
  /\ [](/\ (path = "direct" /\ error # NoError) =>
             pc \in {"run_dry_catch", "run_catch", "zip_finally", "fallback_catch"}
        /\ (path = "build" /\ canDeployWithoutBuild(meta)) =>
             HasEvent("warn", "fallback")
        /\ (outcome = "rejected" /\ DirectAttempted) => path = "build")
  /\ [][/\ (pc = "zip_finally" /\ error # NoError) => pc' = "fallback_catch"
        /\ pc = "fallback_catch" =>
             /\ progress' = Append(progress, Event("warn", "fallback"))
             /\ pc' = "build_bucket" /\ path' = "build"
        /\ path = "build" => path' = "build"]_vars

\* the request succeeded on the build path after a failed direct attempt
C6_Witness ==
  /\ outcome = "resolved"
  /\ producedBy = "build"
  /\ HasEvent("warn", "fallback")
  /\ canDeployWithoutBuild(meta)

----------------------------------------------------------------------------
(* C7: deploy attempts the direct-source path if and only if no Dockerfile *)
(* was detected and a runtime was detected; otherwise it goes straight to  *)
(* the build path and never stages or uploads a direct-source archive.     *)
C7_DirectIffNoDockerfileAndRuntime ==
  (req.op = "deploy" /\ path \in {"direct", "build"}) =>
    /\ DirectAttempted <=> (~meta.hasDockerfile /\ meta.runtime # "undefined")
    /\ ~DirectAttempted =>
         /\ fsDirs = {} /\ tempDir = 0
         /\ \A i \in DOMAIN calls :
              calls[i].by # "deployWithZip" /\ calls[i].path # "direct"

\* a folder with a Dockerfile and a package manifest is being built
C7_Witness ==
  /\ path = "build"
  /\ meta.hasDockerfile /\ meta.runtime = "nodejs"
  /\ pc = "tcb_submit_wait"

----------------------------------------------------------------------------
(* C8 (as claimed): no request completes with a staging directory still    *)
(* present.                                                                *)
C8_StagingDirectoryRemoved ==
  outcome \in {"resolved", "rejected"} => fsDirs = {}

----------------------------------------------------------------------------
(* C9 (as claimed): a request with a missing required field rejects to its *)
(* caller, before any client is constructed and before any remote call.    *)
C9_InvalidRequestRejects ==
  (~req.projectId \/ ~req.serviceName \/ ThirdFieldMissing) =>
    /\ ~clients /\ calls = << >>
    /\ pc = "done" => outcome = "rejected"

----------------------------------------------------------------------------
(* C10: preflight (ensureApisEnabled) has completed successfully before    *)
(* any storage, registry, build or service call is issued; if it fails no  *)
(* such call is issued in the request.                                     *)
C10_PreflightBeforeRemoteCalls ==
  calls # << >> =>
    /\ calls[1].call = "ensureApisEnabled"
    /\ \A i \in DOMAIN calls : i > 1 => calls[i].call # "ensureApisEnabled"
    /\ Len(calls) > 1 => calls[1].res = "ok"
    /\ calls[1].res = "fail" => pc \in {"facade_catch", "done"}

\* the bucket call of the build path was issued after a successful preflight
C10_Witness ==
  /\ Len(calls) = 2
  /\ calls[1].res = "ok"
  /\ calls[2].call = "ensureStorageBucketExists"

----------------------------------------------------------------------------
(* callWithRetry on its own: one operation fn, the clock and the timers.   *)
(* pc is the position in the while (true) loop, calls the log of what      *)
(* happened and when.                                                      *)

\* const initialBackoff = 1000
initialBackoff == 1000

\* time (ms) an invocation of fn takes to settle, and lateness (ms) with which
\* a setTimeout callback runs (never early)
FnDurations == {0, 50}
TimerLateness == {0, 3}

\* what fn can reject with
FnErrors == [code : ErrorCodes, msg : {"other"}]

\* mutant: the exponential formula is used for the first retry as well
backoff_exponentialOnly(r) == initialBackoff * 2^(r - 1)

\* if (retries === 1) backoff = 15000
\* else backoff = initialBackoff * Math.pow(2, retries - 2)
backoff(r) == IF r = 1 THEN 15000 ELSE initialBackoff * 2^(r - 2)

\* one entry of callWithRetry's log: what happened, when, and its argument
\* (the error code of a failure or a throw, the delay of a setTimeout)
Ev(ev, at, arg) == [ev |-> ev, at |-> at, arg |-> arg]

InitRetry ==
  /\ req = [op |-> "callWithRetry"]
  /\ pc = "cw_call"
  /\ outcome = "running"
  /\ calls = << >>
  /\ progress = << >>
  /\ retries = 0
  /\ error = NoError
  /\ now = 0
  /\ wake = 0
  /\ DeployIdle
  /\ PreflightIdle

\* try { return await fn(); : fn is invoked
InvokeFn ==
  /\ pc = "cw_call"
  /\ calls' = Append(calls, Ev("invoke", now, 0))
  /\ pc' = "cw_pending"
  /\ UNCHANGED << outcome, progress, retries, error, clockVars, deployVars,
                  preflightVars >>

\* return await fn(); : fn resolves and callWithRetry returns its result
FnResolves ==
  /\ pc = "cw_pending"
  /\ \E d \in FnDurations :
       /\ now' = now + d
       /\ calls' = Append(calls, Ev("return", now + d, 0))
  /\ outcome' = "resolved"
  /\ pc' = "done"
  /\ UNCHANGED << progress, retries, error, wake, deployVars, preflightVars >>

\* catch (error) { if (error.code === 7 && retries < maxRetries) { retries++;
\* ... await new Promise((resolve) => setTimeout(resolve, backoff)); }
FnRejectsRetried ==
  /\ pc = "cw_pending"
  /\ \E d \in FnDurations, e \in FnErrors :
       /\ callWithRetryRetries(e)
       /\ now' = now + d
       /\ error' = e
       /\ retries' = retries + 1
       /\ wake' = now + d + backoff(retries + 1)
       /\ calls' = calls \o << Ev("fail", now + d, e.code),
                               Ev("setTimeout", now + d, backoff(retries + 1)) >>
  /\ pc' = "cw_sleep"
  /\ UNCHANGED << outcome, progress, deployVars, preflightVars >>

\* catch (error) { ... else { throw error; } }
FnRejectsThrown ==
  /\ pc = "cw_pending"
  /\ \E d \in FnDurations, e \in FnErrors :
       /\ ~callWithRetryRetries(e)
       /\ now' = now + d
       /\ error' = e
       /\ calls' = calls \o << Ev("fail", now + d, e.code),
                               Ev("throw", now + d, e.code) >>
  /\ outcome' = "rejected"
  /\ pc' = "done"
  /\ UNCHANGED << progress, retries, wake, deployVars, preflightVars >>

\* the setTimeout callback resolves the awaited promise, not before its delay
TimerFires ==
  /\ pc = "cw_sleep"
  /\ \E late \in TimerLateness : now' = wake + late
  /\ pc' = "cw_call"
  /\ UNCHANGED << outcome, calls, progress, retries, error, wake, deployVars,
                  preflightVars >>

NextRetry ==
  \/ InvokeFn
  \/ FnResolves
  \/ FnRejectsRetried
  \/ FnRejectsThrown
  \/ TimerFires

SpecRetry == InitRetry /\ [][NextRetry]_vars

\* fn settles and timers fire
SpecRetryFair == SpecRetry /\ WF_vars(NextRetry)

\* reading the log
EvAt(kind) == { i \in 1..Len(calls) : calls[i].ev = kind }

\* the last failure logged before position i (0 if none)
LastFailBefore(i) ==
  LET F == { j \in EvAt("fail") : j < i }
  IN IF F = {} THEN 0 ELSE CHOOSE j \in F : \A k \in F : k <= j

\* number of timers set up to position i of the log
TimersUpTo(i) == Cardinality({ j \in EvAt("setTimeout") : j <= i })

----------------------------------------------------------------------------
(* Claims about callWithRetry *)

\* C11: a failure of the operation whose code is not 7 is rethrown at once,
\* with the same error, no timer and no further invocation; the operation is
\* invoked again only after a failure with code 7.
C11_OnlyPermissionDeniedIsRetried ==
  /\ \A i \in EvAt("fail") :
       calls[i].arg # 7 =>
         /\ Len(calls) = i + 1
         /\ calls[i + 1] = Ev("throw", calls[i].at, calls[i].arg)
         /\ outcome = "rejected"
         /\ error.code = calls[i].arg
  /\ \A i \in EvAt("invoke") :
       i > 1 =>
         /\ LastFailBefore(i) # 0
         /\ calls[LastFailBefore(i)].arg = 7
         /\ \A k \in EvAt("invoke") : ~(LastFailBefore(i) < k /\ k < i)

\* a code-3 failure arrives after the operation was already retried
C11_Witness ==
  /\ pc = "done"
  /\ req.op = "callWithRetry"
  /\ outcome = "rejected"
  /\ error.code = 3
  /\ retries >= 1

\* C12: an operation that keeps failing with code 7 is retried at most 7
\* times, the code-7 error is thrown only once the 7th retry failed too, a
\* success is returned without any further invocation, and the loop ends.
C12_AtMostSevenRetries ==
  /\ [](/\ Cardinality(EvAt("invoke")) <= 8
        /\ retries <= 7
        /\ \A i \in EvAt("throw") :
             calls[i].arg = 7 =>
               /\ Cardinality({ j \in EvAt("fail") : j < i /\ calls[j].arg = 7 }) = 8
               /\ Cardinality({ j \in EvAt("invoke") : j < i }) = 8
        /\ \A i \in EvAt("return") :
             /\ i = Len(calls)
             /\ calls[i - 1].ev = "invoke"
             /\ outcome = "resolved"
        /\ (outcome = "resolved") => (EvAt("return") # {}))
  /\ <>(pc = "done")

\* the error of the 7th retry is thrown
C12_Witness ==
  /\ pc = "done"
  /\ req.op = "callWithRetry"
  /\ outcome = "rejected"
  /\ error.code = 7
  /\ retries = 7
  /\ Cardinality(EvAt("invoke")) = 8

\* the delays of retries 1..7, in ms: 15 s, then 1, 2, 4, 8, 16, 32 s
RetryDelays == << 15000, 1000, 2000, 4000, 8000, 16000, 32000 >>

\* C13: the timer set before retry n has delay 15 s for n = 1 and
\* 1 s * 2^(n-2) for n = 2..7, and the operation is not invoked again before
\* that delay has elapsed.
C13_BackoffSchedule ==
  \A i \in EvAt("setTimeout") :
    LET n == TimersUpTo(i) IN
      /\ n \in 1..7
      /\ calls[i].arg = RetryDelays[n]
      /\ calls[i].arg = IF n = 1 THEN 15000 ELSE 1000 * 2^(n - 2)
      /\ \A k \in EvAt("invoke") :
           k > i => calls[k].at >= calls[i].at + RetryDelays[n]

\* all seven timers were set and the 7th retry was made
C13_Witness ==
  /\ req.op = "callWithRetry"
  /\ Cardinality(EvAt("setTimeout")) = 7
  /\ calls[Len(calls)].ev = "invoke"

----------------------------------------------------------------------------
(* ensureApisEnabled (lib/cloud-api/helpers.js) step by step, with           *)
(* checkAndEnableApi, the billing helpers of lib/cloud-api/billing.js and   *)
(* the project they read and change.  calls is the log of the calls of the  *)
(* running invocation, error.msg the thrown message as a sequence of words. *)

Min(a, b) == IF a <= b THEN a ELSE b

Range(seq) == { seq[i] : i \in 1..Len(seq) }

\* the lists of APIs ensureApisEnabled is handed: the two lists of the
\* callers and their prefixes, up to MaxApis entries
ApiLists ==
  { SubSeq(l, 1, Min(n, Len(l))) :
      l \in {REQUIRED_APIS_SOURCE_DEPLOY, REQUIRED_APIS_IMAGE_DEPLOY},
      n \in 0..MaxApis }

\* display names of billing accounts, as sequences of words
DisplayNames == { << "Acme" >>, << "multiple", "billing", "accounts" >> }

\* what listBillingAccounts maps each account to
Accounts == [displayName : DisplayNames, open : BOOLEAN]

\* results of listBillingAccounts: [] on error or when there is none
AccountLists ==
  UNION { [1..n -> Accounts] : n \in 0..MaxAccounts }

\* one entry of the log of ensureApisEnabled
PfCall(name, api, res) ==
  [call |-> name, api |-> api, stage |-> stage, attempt |-> attempt,
   res |-> res]

\* `Failed to enable Service Usage API: ${e.message}` and its billing twin
PrerequisiteMessage(st, e) ==
  IF st = "serviceusage"
  THEN << "Failed", "to", "enable", "Service", "Usage", "API:", e.msg >>
  ELSE << "Failed", "to", "enable", "Cloud", "Billing", "API:", e.msg >>

\* mutant: two or more accounts are reported like none
BillingReason_noMultiple(accts) ==
  IF Len(accts) = 0 \/ Len(accts) > 1
  THEN << "no", "billing", "accounts", "were", "found" >>
  ELSE << "the", "only", "available", "billing", "account", "'" >>
       \o accts[1].displayName \o << "'", "is", "not", "open" >>

\* let reason: if (!accounts || accounts.length === 0) ... else if
\* (accounts.length > 1) ... else ...
BillingReason(accts) ==
  IF Len(accts) = 0
  THEN << "no", "billing", "accounts", "were", "found" >>
  ELSE IF Len(accts) > 1
  THEN << "multiple", "billing", "accounts", "were", "found" >>
  ELSE << "the", "only", "available", "billing", "account", "'" >>
       \o accts[1].displayName \o << "'", "is", "not", "open" >>

\* `Billing is not enabled for project ${projectId}, and it could not be
\* enabled automatically because ${reason}. Please enable billing ...`
BillingMessage(accts) ==
  << "Billing", "is", "not", "enabled", "for", "project", "<projectId>,",
     "and", "it", "could", "not", "be", "enabled", "automatically",
     "because" >> \o BillingReason(accts) \o
  << ".", "Please", "enable", "billing", "to", "use", "Google", "Cloud",
     "services:", "<url>" >>

\* `Failed to automatically attach project ${projectId} to billing account ...`
AttachFailMessage ==
  << "Failed", "to", "automatically", "attach", "project", "<projectId>",
     "to", "billing", "account", "<account.name>.", "Please", "enable",
     "billing", "manually:", "<url>" >>

\* `Failed to ensure API [${api}] is enabled after retry. Please check manually.`
ApiFailMessage(api) ==
  << "Failed", "to", "ensure", "API", "[", api, "]", "is", "enabled",
     "after", "retry.", "Please", "check", "manually." >>

\* the api parameter of the running checkAndEnableApi
CurrentApi ==
  IF stage = "serviceusage" THEN ServiceUsageApi
  ELSE IF stage = "cloudbilling" THEN BillingApi
  ELSE apis[apiIndex]

InitPreflight ==
  /\ req = [op |-> "ensureApisEnabled"]
  /\ pc = "pf_get"
  /\ outcome = "running"
  /\ calls = << >>
  /\ progress = << >>
  /\ retries = 0
  /\ error = NoError
  /\ apis \in ApiLists
  /\ project \in [enabled : SUBSET ({ServiceUsageApi, BillingApi} \cup Range(apis)),
                  billingEnabled : BOOLEAN]
  /\ accounts = << >>
  /\ stage = "serviceusage"
  /\ apiIndex = 0
  /\ attempt = 1
  /\ invocation = 1
  /\ ClockIdle
  /\ DeployIdle

\* checkAndEnableApi returned: the next prerequisite, the billing check, the
\* next API of the for loop, or the end of ensureApisEnabled
CheckAndEnableApiReturns(log) ==
  /\ calls' = log
  /\ UNCHANGED << progress, error >>
  /\ IF stage = "serviceusage"
     THEN /\ stage' = "cloudbilling"
          /\ pc' = "pf_get"
          /\ UNCHANGED << apiIndex, attempt, outcome >>
     ELSE IF stage = "cloudbilling"
     THEN /\ stage' = "billing"
          /\ pc' = "pf_billing"
          /\ UNCHANGED << apiIndex, attempt, outcome >>
     ELSE IF apiIndex < Len(apis)
     THEN /\ apiIndex' = apiIndex + 1
          /\ attempt' = 1
          /\ pc' = "pf_get"
          /\ UNCHANGED << stage, outcome >>
     ELSE /\ attempt' = 1
          /\ outcome' = "resolved"
          /\ pc' = "done"
          /\ UNCHANGED << stage, apiIndex >>

\* mutant: a failing API is retried again and again
CheckAndEnableApiThrows_retriesForever(log, e) ==
  /\ UNCHANGED << stage, apiIndex >>
  /\ IF stage \in {"serviceusage", "cloudbilling"}
     THEN /\ calls' = log
          /\ progress' = Append(progress, Event("error", stage))
          /\ error' = [code |-> 0, msg |-> PrerequisiteMessage(stage, e)]
          /\ outcome' = "rejected"
          /\ pc' = "done"
          /\ UNCHANGED attempt
     ELSE IF Len(log) < 12
     THEN /\ calls' = Append(log, PfCall("setTimeout", CurrentApi, "1000ms"))
          /\ progress' = Append(progress, Event("warn", "retrying"))
          /\ attempt' = 2
          /\ pc' = "pf_sleep"
          /\ UNCHANGED << error, outcome >>
     ELSE /\ calls' = log
          /\ progress' = Append(progress, Event("error", "afterRetry"))
          /\ error' = [code |-> 0, msg |-> ApiFailMessage(CurrentApi)]
          /\ outcome' = "rejected"
          /\ pc' = "done"
          /\ UNCHANGED attempt

\* checkAndEnableApi threw e: the catch of a prerequisite wraps and throws;
\* the catch of the for loop warns, waits 1000 ms and tries once more; the
\* catch of that second try throws
CheckAndEnableApiThrows(log, e) ==
  /\ UNCHANGED << stage, apiIndex >>
  /\ IF stage \in {"serviceusage", "cloudbilling"}
     THEN /\ calls' = log
          /\ progress' = Append(progress, Event("error", stage))
          /\ error' = [code |-> 0, msg |-> PrerequisiteMessage(stage, e)]
          /\ outcome' = "rejected"
          /\ pc' = "done"
          /\ UNCHANGED attempt
     ELSE IF attempt = 1
     THEN /\ calls' = Append(log, PfCall("setTimeout", CurrentApi, "1000ms"))
          /\ progress' = Append(progress, Event("warn", "retrying"))
          /\ attempt' = 2
          /\ pc' = "pf_sleep"
          /\ UNCHANGED << error, outcome >>
     ELSE /\ calls' = log
          /\ progress' = Append(progress, Event("error", "afterRetry"))
          /\ error' = [code |-> 0, msg |-> ApiFailMessage(CurrentApi)]
          /\ outcome' = "rejected"
          /\ pc' = "done"
          /\ UNCHANGED attempt

\* billing is settled: for (const api of apis) starts, or there is nothing to do
CheckRequiredApis(log) ==
  /\ calls' = log
  /\ UNCHANGED << progress, error >>
  /\ stage' = "apis"
  /\ attempt' = 1
  /\ IF Len(apis) = 0
     THEN /\ outcome' = "resolved"
          /\ pc' = "done"
          /\ UNCHANGED apiIndex
     ELSE /\ apiIndex' = 1
          /\ pc' = "pf_get"
          /\ UNCHANGED outcome

\* ensureApisEnabled throws an Error with this message
PreflightFails(log, tag, msg) ==
  /\ calls' = log
  /\ progress' = Append(progress, Event("error", tag))
  /\ error' = [code |-> 0, msg |-> msg]
  /\ outcome' = "rejected"
  /\ pc' = "done"
  /\ UNCHANGED << stage, apiIndex, attempt >>

\* checkAndEnableApi: callWithRetry(() => serviceUsageClient.getService(...))
GetService ==
  /\ pc = "pf_get"
  /\ calls' = Append(calls, PfCall("getService", CurrentApi, "pending"))
  /\ retries' = 0
  /\ pc' = "pf_get_wait"
  /\ UNCHANGED << outcome, progress, error, project, accounts, stage, apiIndex,
                  attempt, invocation, apis, clockVars, deployVars >>

\* service.state === 'ENABLED': checkAndEnableApi returns
GetServiceEnabled ==
  /\ pc = "pf_get_wait"
  /\ CurrentApi \in project.enabled
  /\ CheckAndEnableApiReturns(Completed("ENABLED"))
  /\ retries' = 0
  /\ UNCHANGED << project, accounts, invocation, apis, clockVars, deployVars >>

\* if (service.state !== 'ENABLED'): callWithRetry(() => enableService(...))
GetServiceNotEnabled ==
  /\ pc = "pf_get_wait"
  /\ CurrentApi \notin project.enabled
  /\ calls' = Append(Completed("DISABLED"),
                     PfCall("enableService", CurrentApi, "pending"))
  /\ retries' = 0
  /\ pc' = "pf_enable_wait"
  /\ UNCHANGED << outcome, progress, error, project, accounts, stage, apiIndex,
                  attempt, invocation, apis, clockVars, deployVars >>

\* getService rejects and callWithRetry rethrows
GetServiceFails ==
  /\ pc = "pf_get_wait"
  /\ \E e \in CallErrors :
       /\ ~callWithRetryRetries(e)
       /\ CheckAndEnableApiThrows(Completed("fail"), e)
  /\ retries' = 0
  /\ UNCHANGED << project, accounts, invocation, apis, clockVars, deployVars >>

\* const [operation] = await callWithRetry(() => enableService(...))
EnableServiceSucceeds ==
  /\ pc = "pf_enable_wait"
  /\ calls' = Completed("ok")
  /\ retries' = 0
  /\ pc' = "pf_op_wait"
  /\ UNCHANGED << outcome, progress, error, project, accounts, stage, apiIndex,
                  attempt, invocation, apis, clockVars, deployVars >>

\* enableService rejects and callWithRetry rethrows
EnableServiceFails ==
  /\ pc = "pf_enable_wait"
  /\ \E e \in CallErrors :
       /\ ~callWithRetryRetries(e)
       /\ CheckAndEnableApiThrows(Completed("fail"), e)
  /\ retries' = 0
  /\ UNCHANGED << project, accounts, invocation, apis, clockVars, deployVars >>

\* await operation.promise() resolves: the API is enabled now
OperationResolves ==
  /\ pc = "pf_op_wait"
  /\ project' = [project EXCEPT !.enabled = @ \cup {CurrentApi}]
  /\ CheckAndEnableApiReturns(
       Append(calls, PfCall("operation.promise", CurrentApi, "ok")))
  /\ UNCHANGED << retries, accounts, invocation, apis, clockVars, deployVars >>

\* await operation.promise() rejects
OperationRejects ==
  /\ pc = "pf_op_wait"
  /\ CheckAndEnableApiThrows(
       Append(calls, PfCall("operation.promise", CurrentApi, "fail")),
       PlainError)
  /\ UNCHANGED << retries, project, accounts, invocation, apis, clockVars,
                  deployVars >>

\* await new Promise((resolve) => setTimeout(resolve, 1000)) is over
RetryTimerFires ==
  /\ pc = "pf_sleep"
  /\ pc' = "pf_get"
  /\ UNCHANGED << outcome, calls, progress, retries, error, project, accounts,
                  stage, apiIndex, attempt, invocation, apis, clockVars,
                  deployVars >>

\* isBillingEnabled: billingInfo.billingEnabled, or false when
\* getProjectBillingInfo throws
isBillingEnabled(answered) ==
  IF ~answered THEN "unknown"
  ELSE IF project.billingEnabled THEN "enabled" ELSE "disabled"

\* mutant: the APIs are checked whatever the billing status is
IsBillingEnabled_ignoresResult ==
  /\ pc = "pf_billing"
  /\ \E thrown \in {NoError} \cup CallErrors :
       CheckRequiredApis(
         Append(calls, PfCall("isBillingEnabled", "",
                              isBillingEnabled(thrown = NoError))
                       @@ [thrown |-> thrown]))
  /\ UNCHANGED << retries, project, accounts, invocation, apis, clockVars,
                  deployVars >>

\* if (!(await isBillingEnabled(projectId))): client.getProjectBillingInfo is
\* called directly, and what it throws is caught and logged inside
\* isBillingEnabled
IsBillingEnabled ==
  /\ pc = "pf_billing"
  /\ \E thrown \in {NoError} \cup CallErrors :
       LET res == isBillingEnabled(thrown = NoError)
           log == Append(calls, PfCall("isBillingEnabled", "", res)
                                @@ [thrown |-> thrown])
       IN IF res = "enabled"
          THEN CheckRequiredApis(log)
          ELSE /\ calls' = log
               /\ pc' = "pf_list"
               /\ UNCHANGED << outcome, progress, error, stage, apiIndex,
                               attempt >>
  /\ UNCHANGED << retries, project, accounts, invocation, apis, clockVars,
                  deployVars >>

\* mutant: the account is attached whether it is open or not
CanAutoAttach_ignoresOpen(accts) == Len(accts) = 1

\* accounts && accounts.length === 1 && accounts[0].open
CanAutoAttach(accts) == Len(accts) = 1 /\ accts[1].open

\* const accounts = await listBillingAccounts(), then the branch on it
ListBillingAccounts ==
  /\ pc = "pf_list"
  /\ \E a \in AccountLists :
       LET log == Append(calls, PfCall("listBillingAccounts", "", "ok"))
       IN /\ accounts' = a
          /\ IF CanAutoAttach(a)
             THEN /\ calls' = log
                  /\ pc' = "pf_attach"
                  /\ UNCHANGED << outcome, progress, error, stage, apiIndex,
                                  attempt >>
             ELSE PreflightFails(log, "billing", BillingMessage(a))
  /\ UNCHANGED << retries, project, invocation, apis, clockVars, deployVars >>

\* what attachProjectToBillingAccount resolves to: the updated billing info
\* ({billingEnabled: true} or not), or null on error
AttachmentResults == {"enabled", "notEnabled", "null"}

\* mutant: only a missing result counts as a failure
AttachmentFailed_nullOnly(r) == r = "null"

\* if (!attachmentResult || !attachmentResult.billingEnabled)
AttachmentFailed(r) == r = "null" \/ r # "enabled"

\* const attachmentResult = await attachProjectToBillingAccount(...)
AttachProjectToBillingAccount ==
  /\ pc = "pf_attach"
  /\ \E r \in AttachmentResults :
       LET log == Append(calls, PfCall("attachProjectToBillingAccount", "", r))
       IN /\ project' = [project EXCEPT !.billingEnabled = (@ \/ r = "enabled")]
          /\ IF AttachmentFailed(r)
             THEN PreflightFails(log, "attach", AttachFailMessage)
             ELSE CheckRequiredApis(log)
  /\ UNCHANGED << retries, accounts, invocation, apis, clockVars, deployVars >>

\* ensureApisEnabled is called again on the same project, right after an
\* invocation that succeeded
InvokeAgain ==
  /\ pc = "done"
  /\ req.op = "ensureApisEnabled"
  /\ outcome = "resolved"
  /\ invocation < MaxInvocations
  /\ invocation' = invocation + 1
  /\ calls' = << >>
  /\ progress' = << >>
  /\ accounts' = << >>
  /\ stage' = "serviceusage"
  /\ apiIndex' = 0
  /\ attempt' = 1
  /\ outcome' = "running"
  /\ pc' = "pf_get"
  /\ UNCHANGED << retries, error, project, apis, clockVars, deployVars >>

NextPreflight ==
  \/ GetService
  \/ GetServiceEnabled
  \/ GetServiceNotEnabled
  \/ GetServiceFails
  \/ EnableServiceSucceeds
  \/ EnableServiceFails
  \/ OperationResolves
  \/ OperationRejects
  \/ RetryTimerFires
  \/ IsBillingEnabled
  \/ ListBillingAccounts
  \/ AttachProjectToBillingAccount
  \/ CallWithRetryRetries
  \/ InvokeAgain

SpecPreflight == InitPreflight /\ [][NextPreflight]_vars

----------------------------------------------------------------------------
(* Reading the log of ensureApisEnabled *)

PfAt(name) == { i \in 1..Len(calls) : calls[i].call = name }

\* the calls that change the project
PfMutations == PfAt("enableService") \cup PfAt("attachProjectToBillingAccount")

\* entry j is a getService of api in block st that found it ENABLED, or found
\* it not ENABLED and was followed by an enableService whose operation
\* completed; EnsuredEnd is the entry at which that is established
EnsuredAt(j, api, st) ==
  /\ j \in PfAt("getService")
  /\ calls[j].api = api
  /\ calls[j].stage = st
  /\ \/ calls[j].res = "ENABLED"
     \/ /\ calls[j].res = "DISABLED"
        /\ j + 2 <= Len(calls)
        /\ calls[j + 1].call = "enableService"
        /\ calls[j + 1].api = api
        /\ calls[j + 1].res = "ok"
        /\ calls[j + 2].call = "operation.promise"
        /\ calls[j + 2].res = "ok"

EnsuredEnd(j) == IF calls[j].res = "ENABLED" THEN j ELSE j + 2

\* msg contains the words of pat, in a row
Contains(msg, pat) ==
  \E i \in 0..(Len(msg) - Len(pat)) : SubSeq(msg, i + 1, i + Len(pat)) = pat

InPreflight == req.op = "ensureApisEnabled"

----------------------------------------------------------------------------
(* Claims about ensureApisEnabled *)

BillingCase(accts) ==
  IF Len(accts) = 0 THEN "none"
  ELSE IF Len(accts) > 1 THEN "multiple" ELSE "notOpen"

\* ensureApisEnabled gave up on billing right after listing the accounts
BillingUnresolved ==
  /\ InPreflight
  /\ pc = "done"
  /\ calls # << >>
  /\ calls[Len(calls)].call = "listBillingAccounts"

\* C16: when billing is disabled and cannot be attached automatically,
\* preflight fails with the reason that matches the number of accounts and
\* the open flag (none found, multiple found, the only one is not open); the
\* messages of different reasons differ, and the one for two or more accounts
\* contains 'multiple billing accounts'.
C16_BillingFailureReasons ==
  BillingUnresolved =>
    /\ outcome = "rejected"
    /\ ~(Len(accounts) = 1 /\ accounts[1].open)
    /\ BillingCase(accounts) = "none" =>
         /\ Contains(error.msg, << "no", "billing", "accounts", "were", "found" >>)
         /\ ~Contains(error.msg, << "multiple", "billing", "accounts" >>)
         /\ ~Contains(error.msg, << "is", "not", "open" >>)
    /\ BillingCase(accounts) = "multiple" =>
         /\ Contains(error.msg, << "multiple", "billing", "accounts" >>)
         /\ ~Contains(error.msg, << "no", "billing", "accounts", "were", "found" >>)
         /\ ~Contains(error.msg, << "is", "not", "open" >>)
    /\ BillingCase(accounts) = "notOpen" =>
         /\ Contains(error.msg, << "is", "not", "open" >>)
         /\ ~Contains(error.msg, << "no", "billing", "accounts", "were", "found" >>)
    /\ \A other \in AccountLists :
         (~(Len(other) = 1 /\ other[1].open)
            /\ BillingCase(other) # BillingCase(accounts)) =>
           BillingMessage(other) # error.msg

\* two accounts were listed
C16_Witness ==
  /\ BillingUnresolved
  /\ Len(accounts) = 2
  /\ outcome = "rejected"

\* C17: when the attachment result is missing or does not report
\* billingEnabled, preflight fails and nothing is checked or enabled after
\* the attachment.
C17_FailedAttachmentIsFatal ==
  InPreflight =>
    \A i \in PfAt("attachProjectToBillingAccount") :
      calls[i].res \in {"null", "notEnabled"} =>
        /\ i = Len(calls)
        /\ pc = "done"
        /\ outcome = "rejected"
        /\ error.msg = AttachFailMessage

\* the attachment answered without billingEnabled
C17_Witness ==
  /\ InPreflight
  /\ pc = "done"
  /\ calls # << >>
  /\ calls[Len(calls)].call = "attachProjectToBillingAccount"
  /\ calls[Len(calls)].res = "notEnabled"

\* the entries of the for loop that report a failed step
LoopFailures ==
  { i \in 1..Len(calls) : calls[i].stage = "apis" /\ calls[i].res = "fail" }

\* position of api in the list
IndexOf(api) == CHOOSE k \in 1..Len(apis) : apis[k] = api

\* C18: in the for loop a failed check-then-enable of an API is followed by
\* one 1000 ms wait and one second try; when the second try succeeds the next
\* API is checked (or preflight ends successfully), when it fails preflight
\* throws an error naming the API and nothing is checked or enabled after it.
C18_RetryOnceThenFail ==
  InPreflight =>
    /\ \A i \in LoopFailures :
         calls[i].attempt = 1 =>
           /\ i < Len(calls)
           /\ calls[i + 1].call = "setTimeout"
           /\ calls[i + 1].res = "1000ms"
           /\ calls[i + 1].api = calls[i].api
           /\ i + 2 <= Len(calls) =>
                /\ calls[i + 2].call = "getService"
                /\ calls[i + 2].api = calls[i].api
                /\ calls[i + 2].attempt = 2
    /\ \A i \in LoopFailures :
         calls[i].attempt = 2 =>
           /\ i = Len(calls)
           /\ pc = "done"
           /\ outcome = "rejected"
           /\ Contains(error.msg, << calls[i].api >>)
    /\ \A a \in Range(apis) :
         Cardinality({ i \in PfAt("setTimeout") : calls[i].api = a }) <= 1
    /\ \A i \in PfAt("getService") :
         calls[i].attempt = 2 => (i > 1 /\ calls[i - 1].call = "setTimeout")
    /\ \A i \in PfAt("getService") :
         (calls[i].attempt = 2 /\ EnsuredAt(i, calls[i].api, "apis")) =>
           IF EnsuredEnd(i) < Len(calls)
           THEN /\ IndexOf(calls[i].api) < Len(apis)
                /\ calls[EnsuredEnd(i) + 1].call = "getService"
                /\ calls[EnsuredEnd(i) + 1].api = apis[IndexOf(calls[i].api) + 1]
                /\ calls[EnsuredEnd(i) + 1].attempt = 1
           ELSE IF IndexOf(calls[i].api) < Len(apis)
           THEN pc = "pf_get" /\ apiIndex = IndexOf(calls[i].api) + 1
           ELSE pc = "done" /\ outcome = "resolved"

\* the first API of the list needed its second try, the second one failed twice
C18_Witness ==
  /\ InPreflight
  /\ pc = "done"
  /\ outcome = "rejected"
  /\ Len(apis) = 2
  /\ \E i \in PfAt("setTimeout") : calls[i].api = apis[1]
  /\ \E i \in LoopFailures : calls[i].attempt = 2 /\ calls[i].api = apis[2]

\* C19: when every API that is checked reports ENABLED and billing reports
\* enabled, ensureApisEnabled issues no enableService and no billing
\* attachment; in particular an invocation that follows a successful one
\* issues none.
C19_ReadyProjectNoMutation ==
  InPreflight =>
    /\ ((\A i \in PfAt("getService") : calls[i].res \in {"pending", "ENABLED"})
        /\ (\A i \in PfAt("isBillingEnabled") : calls[i].res = "enabled"))
         => PfMutations = {}
    /\ invocation > 1 => PfMutations = {}

----------------------------------------------------------------------------
(* Claims about the build request *)

\* C20: every submitBuild request carries exactly one of dockerBuild and
\* buildpackBuild: dockerBuild exactly when hasDockerfile is true,
\* buildpackBuild otherwise.
C20_ExactlyOneBuildKind ==
  \A i \in 1..Len(calls) :
    (req.op = "deploy" /\ calls[i].call = "submitBuild") =>
      /\ calls[i].request.dockerBuild # calls[i].request.buildpackBuild
      /\ calls[i].request.dockerBuild = meta.hasDockerfile
      /\ calls[i].request.buildpackBuild = ~checkIfDockerFileExists(req.files)

\* a build without Dockerfile was submitted after the direct path gave up
C20_Witness ==
  /\ req.op = "deploy"
  /\ DirectAttempted
  /\ \E i \in 1..Len(calls) :
       /\ calls[i].call = "submitBuild"
       /\ calls[i].request.buildpackBuild
       /\ calls[i].res = "ok"


----------------------------------------------------------------------------
(* Third specification: triggerCloudBuild alone (lib/cloud-api/build.js),   *)
(* from its existence check to the build object it returns or the error it  *)
(* throws. The steps are the ones deployWithBuild runs within a request;    *)
(* getEntries answers with every list of LogEntries.                         *)

\* triggerCloudBuild(..., hasDockerfile): the caller's arguments
InitBuild ==
  /\ req \in [op : {"triggerCloudBuild"}, hasDockerfile : BOOLEAN]
  /\ pc = "tcb_exists"
  /\ outcome = "running"
  /\ clients = TRUE
  /\ calls = << >>
  /\ progress = << >>
  /\ retries = 0
  /\ error = NoError
  /\ dryRunError = NoError
  /\ meta = [hasDockerfile |-> req.hasDockerfile, runtime |-> "undefined"]
  /\ path = "build"
  /\ run = 0
  /\ exists = FALSE
  /\ invokerIamDisabled = FALSE
  /\ serviceExists = FALSE
  /\ tempDir = 0
  /\ fsDirs = {}
  /\ archiveMiB = 0
  /\ polls = 0
  /\ buildStatus = "none"
  /\ producedBy = "none"
  /\ ClockIdle
  /\ PreflightIdle
  /\ ConcurrentIdle

\* return completedBuild: the caller's await resolves
TriggerCloudBuildReturns ==
  /\ pc = "run_enter"
  /\ outcome' = "resolved"
  /\ pc' = "done"
  /\ UNCHANGED << clockVars, preflightVars, concurrentVars >>
  /\ UNCHANGED << req, dryRunError, clients, calls, progress, retries, error,
                  meta, path, run, exists, invokerIamDisabled, serviceExists,
                  tempDir, fsDirs, archiveMiB, polls, buildStatus, producedBy >>

\* an exception leaves triggerCloudBuild: the caller's await rejects
TriggerCloudBuildThrows ==
  /\ pc = Handler
  /\ outcome' = "rejected"
  /\ pc' = "done"
  /\ UNCHANGED << clockVars, preflightVars, concurrentVars >>
  /\ UNCHANGED << req, dryRunError, clients, calls, progress, retries, error,
                  meta, path, run, exists, invokerIamDisabled, serviceExists,
                  tempDir, fsDirs, archiveMiB, polls, buildStatus, producedBy >>

NextBuild ==
  \/ BuildCheckServiceExists
  \/ BuildDryRun
  \/ BuildDryRunSucceeds
  \/ BuildDryRunFails
  \/ SubmitBuild
  \/ SubmitBuildSucceeds
  \/ SubmitBuildFails
  \/ GetBuild
  \/ GetBuildSucceeds
  \/ GetBuildFails
  \/ PollSleep
  \/ WaitForBuildLogs
  \/ FetchBuildLogs
  \/ BuildFailed
  \/ CallWithRetryRetries
  \/ TriggerCloudBuildReturns
  \/ TriggerCloudBuildThrows

SpecBuild == InitBuild /\ [][NextBuild]_vars

\* pending calls are answered, timers fire and continuations run; the build
\* service reports a terminal status after MaxPolls polls at the latest
SpecBuildFair == SpecBuild /\ WF_vars(NextBuild)

(* Readers of triggerCloudBuild's call log *)

\* positions of triggerCloudBuild's calls of one name
BuildAt(name) ==
  { i \in 1..Len(calls) :
      calls[i].call = name /\ calls[i].by = "triggerCloudBuild" }

MaxOf(S) == CHOOSE x \in S : \A y \in S : y <= x

\* the polls the build service has answered with a status
AnsweredPolls ==
  { i \in BuildAt("getBuild") : calls[i].res \notin {"pending", "fail"} }

\* the status of the latest poll ("none" before the first one)
LastStatus ==
  IF BuildAt("getBuild") = {} THEN "none"
  ELSE calls[MaxOf(BuildAt("getBuild"))].res

InPollingLoop == pc \in {"tcb_poll", "tcb_poll_wait", "tcb_sleep"}

FailedStatuses == {"FAILURE", "INTERNAL_ERROR", "TIMEOUT", "CANCELLED"}

\* the pending or thrown error is the build-failed error of the else branch
BuildFailedThrown == "text" \in DOMAIN error

\* C21: a build reported non-terminal N times and then terminal is polled
\* exactly N + 1 times: every non-terminal poll is followed by one sleep of
\* 5 seconds, never more or less, and then by the next poll; the terminal poll
\* is the last poll, and no 5-second sleep follows it.
C21_PollsEveryFiveSecondsUntilTerminal ==
  /\ \A i \in AnsweredPolls :
       IF calls[i].res \in TerminalStatuses
       THEN \A j \in (i + 1)..Len(calls) :
              /\ calls[j].call # "getBuild"
              /\ calls[j].call = "setTimeout" => calls[j].ms # POLL_INTERVAL_MS
       ELSE /\ i < Len(calls) => /\ calls[i + 1].call = "setTimeout"
                                 /\ calls[i + 1].ms = POLL_INTERVAL_MS
            /\ i + 1 < Len(calls) => calls[i + 2].call = "getBuild"
            /\ i = Len(calls) => pc = "tcb_sleep"
  /\ Cardinality(AnsweredPolls) = polls
  /\ \A i \in BuildAt("getBuild"), j \in BuildAt("getBuild") :
       i < j => calls[i].res \in NonTerminalStatuses
  /\ \A i \in BuildAt("setTimeout") :
       calls[i].ms = POLL_INTERVAL_MS =>
         /\ i > 1
         /\ calls[i - 1].call = "getBuild"
         /\ calls[i - 1].res \in NonTerminalStatuses

\* two non-terminal polls, each followed by a 5-second sleep, then a terminal
\* poll, and the call has ended
C21_Witness ==
  /\ req.op = "triggerCloudBuild"
  /\ pc = "done"
  /\ Cardinality({ i \in AnsweredPolls :
                     calls[i].res \in NonTerminalStatuses }) = 2
  /\ Cardinality({ i \in AnsweredPolls :
                     calls[i].res \in TerminalStatuses }) = 1
  /\ Cardinality({ i \in BuildAt("setTimeout") :
                     calls[i].ms = POLL_INTERVAL_MS }) = 2

\* C22: the polling loop is left (other than by a failing getBuild call) only
\* with one of the five terminal statuses; the call returns the build if and
\* only if that status is SUCCESS, and with each of the other four it takes
\* the failure branch and throws the build-failed error.
C22_LeavesLoopOnTerminalStatusOnly ==
  /\ (BuildAt("getBuild") # {} /\ LastStatus # "fail" /\ ~InPollingLoop) =>
       LastStatus \in TerminalStatuses
  /\ outcome = "resolved" <=> (pc = "done" /\ LastStatus = "SUCCESS")
  /\ LastStatus = "SUCCESS" => /\ pc \in {"run_enter", "done"}
                               /\ error = NoError
  /\ LastStatus \in FailedStatuses =>
       /\ pc \in {"tcb_failed", "tcb_logs_delay", "tcb_logs_wait", Handler,
                  "done"}
       /\ pc \in {Handler, "done"} => BuildFailedThrown
       /\ pc = "done" => outcome = "rejected"
  /\ BuildFailedThrown => LastStatus \in FailedStatuses

\* a build polled as WORKING and then as TIMEOUT has been thrown as failed
C22_Witness ==
  /\ req.op = "triggerCloudBuild"
  /\ outcome = "rejected"
  /\ BuildFailedThrown
  /\ LastStatus = "TIMEOUT"
  /\ \E i \in AnsweredPolls : calls[i].res = "WORKING"

\* the answered or failed log fetch of the failure branch
LogFetch == calls[MaxOf(BuildAt("getEntries"))]

\* the text of a log entry as the message shows it
Shown(entry) == IF entry.data = "undefined" THEN "" ELSE entry.data

\* C23: the error thrown for a build that ended FAILURE, INTERNAL_ERROR,
\* TIMEOUT or CANCELLED names the build id, and it holds the fetched log
\* lines or the log URL, in every case: the log fetch failed, it returned no
\* entry, or it returned entries.
C23_FailureMessageHasLogsOrUrl ==
  (LastStatus \in FailedStatuses /\ pc \in {Handler, "done"}) =>
    /\ BuildFailedThrown
    /\ Contains(error.text, << "Build", "<buildId>", "failed" >>)
    /\ \/ Contains(error.text, << "Log", "URL" >>) /\
          Contains(error.text, << "<logUrl>" >>)
       \/ /\ LogFetch.res = "ok"
          /\ Len(LogFetch.entries) > 0
          /\ Contains(error.text, << "log", "lines", "from", "build",
                                     "<buildId>" >>)
          /\ \A k \in 1..Len(LogFetch.entries) :
               \E m \in 1..Len(error.text) :
                 error.text[m] = Shown(LogFetch.entries[k])

\* the log fetch failed and the thrown message still carries the log URL
C23_Witness ==
  /\ req.op = "triggerCloudBuild"
  /\ outcome = "rejected"
  /\ LastStatus \in FailedStatuses
  /\ LogFetch.res = "fail"
  /\ Contains(error.text, << "<logUrl>" >>)

\* C24: when the log fetch returns entries, newest first, the thrown message
\* contains 'failed' and then all the fetched lines, oldest first (the
\* reverse of the order of retrieval); and getEntries is called only right
\* after the 10-second timer.
C24_LogLinesChronologicalAfterDelay ==
  /\ \A i \in BuildAt("getEntries") :
       /\ i > 1
       /\ calls[i - 1].call = "setTimeout"
       /\ calls[i - 1].ms = DELAY_WAIT_FOR_BUILD_LOGS
  /\ (/\ BuildAt("getEntries") # {}
      /\ LogFetch.res = "ok"
      /\ Len(LogFetch.entries) > 0) =>
       LET n == Len(LogFetch.entries)
           chronological == [k \in 1..n |-> Shown(LogFetch.entries[n + 1 - k])]
       IN /\ BuildFailedThrown
          /\ Contains(error.text, << "failed" >>)
          /\ Len(error.text) > n
          /\ SubSeq(error.text, Len(error.text) - n + 1, Len(error.text))
               = chronological
          /\ \E m \in 1..(Len(error.text) - n) : error.text[m] = "failed"

\* two different lines were fetched, "step 2" before "step 1", and thrown
C24_Witness ==
  /\ req.op = "triggerCloudBuild"
  /\ outcome = "rejected"
  /\ BuildAt("getEntries") # {}
  /\ LogFetch.res = "ok"
  /\ LogFetch.entries = << [data |-> "step 2"], [data |-> "step 1"] >>
  /\ Contains(error.text, << "step 1", "step 2" >>)

\* C25: a failed existence check or a failed dry run ends triggerCloudBuild
\* with an error and without any build submitted; a build is submitted only
\* after the existence check answered and the dry run of the matching kind
\* (update for an existing service, create otherwise) succeeded.
C25_NoBuildWithoutSuccessfulDryRun ==
  /\ \A i \in BuildAt("checkCloudRunServiceExists") \cup
              { j \in 1..Len(calls) : calls[j].by = "triggerCloudBuild"
                                      /\ calls[j].dry } :
       calls[i].res = "fail" =>
         /\ i = Len(calls)
         /\ BuildAt("submitBuild") = {}
         /\ error # NoError
         /\ pc \in {Handler, "done"}
         /\ pc = "done" => outcome = "rejected"
  /\ \A s \in BuildAt("submitBuild") :
       /\ s > 2
       /\ calls[s - 2].call = "checkCloudRunServiceExists"
       /\ calls[s - 2].by = "triggerCloudBuild"
       /\ calls[s - 2].res \in {"exists", "notFound"}
       /\ calls[s - 1].by = "triggerCloudBuild"
       /\ calls[s - 1].dry
       /\ calls[s - 1].res = "ok"
       /\ calls[s - 1].call = KindOf(calls[s - 2].res)

\* the dry run of an update failed, and the call was rejected with no build
C25_Witness ==
  /\ req.op = "triggerCloudBuild"
  /\ outcome = "rejected"
  /\ Len(calls) = 2
  /\ calls[1].res = "exists"
  /\ calls[2].call = "updateService"
  /\ calls[2].dry
  /\ calls[2].res = "fail"


----------------------------------------------------------------------------
(* Claims about whole deploy / deployImage requests (specification Spec) *)

\* the progress events of level error that carry the message of the error
\* the request is rejected with
ReasonEvents ==
  { k \in DOMAIN progress :
      /\ progress[k].level = "error"
      /\ "reason" \in DOMAIN progress[k]
      /\ progress[k].reason = error }

ImageDeploySteps ==
  {"start", "construct", "preflight", "run_enter", "run_exists", "run_dry",
   "run_dry_wait", "run_dry_catch", "run_real", "run_real_wait", "run_lro",
   "run_catch", "facade_return", "facade_catch", "done"}

\* C27: a deployImage request never stages files, builds an archive, uploads
\* to storage, touches the artifact registry or submits a build: after
\* validation its only remote work is one preflight, for the image-deploy
\* API set, followed by at most one execution of deployToCloudRun.
C27_DeployImageOnlyPreflightAndDeployer ==
  req.op = "deployImage" =>
    /\ pc \in ImageDeploySteps
    /\ path \in {"none", "image"}
    /\ tempDir = 0 /\ fsDirs = {} /\ archiveMiB = 0
    /\ polls = 0 /\ buildStatus = "none"
    /\ run <= 1
    /\ outcome = "resolved" => run = 1
    /\ \A i \in DOMAIN calls :
         IF i = 1
         THEN /\ calls[i].call = "ensureApisEnabled"
              /\ calls[i].apis = REQUIRED_APIS_IMAGE_DEPLOY
         ELSE /\ calls[1].res = "ok"
              /\ calls[i].by = "deployToCloudRun"
              /\ calls[i].run = 1
              /\ calls[i].call \in {"checkCloudRunServiceExists",
                                    "createService", "updateService",
                                    "operation.promise"}

\* an image deployment that resolved after its real mutation
C27_Witness ==
  /\ req.op = "deployImage"
  /\ outcome = "resolved"
  /\ \E i \in DOMAIN calls : IsMutation(calls[i]) /\ ~calls[i].dry
                             /\ calls[i].res = "ok"

\* C28: once the archive of the direct path exceeds the allowed size, the
\* direct path makes no bucket, upload or service call; the request goes on
\* to the build path, where its outcome is decided.
C28_OversizedArchiveFallsBackToBuild ==
  (req.op = "deploy" /\ pc # "zip_size"
   /\ archiveMiB > MAX_ALLOWED_DIRECT_SOURCE_SIZE_MIB) =>
    /\ \A i \in DOMAIN calls : calls[i].path # "direct"
    /\ producedBy # "direct"
    /\ path = "direct" => pc \in {"zip_finally", "fallback_catch"}
    /\ path \in {"direct", "build"}
    /\ outcome # "running" =>
         /\ path = "build"
         /\ HasEvent("warn", "fallback")
         /\ \E i \in DOMAIN calls :
              calls[i].path = "build" /\ calls[i].by = "deployWithBuild"

\* an oversized archive, and the request resolved by the build path
C28_Witness ==
  /\ req.op = "deploy"
  /\ archiveMiB > MAX_ALLOWED_DIRECT_SOURCE_SIZE_MIB
  /\ HasEvent("warn", "archiveSize")
  /\ outcome = "resolved"
  /\ producedBy = "build"


----------------------------------------------------------------------------
(* Fifth specification: MaxTasks deploy requests for the same project in    *)
(* one process, interleaved at their awaits.  Each request runs             *)
(* deployWithZip (staging directory, archive source.tar.gz, direct          *)
(* revision) or deployWithBuild (archive source.zip, Cloud Build); a failed *)
(* direct attempt falls back to deployWithBuild.  tasks[t] holds the        *)
(* position and the locals of request t, bucket the objects of the bucket   *)
(* `${projectId}-source-bucket`, fsDirs and staged the staging directories  *)
(* on disk and the files in them, now the value of Date.now().              *)

Tasks == 1..MaxTasks

\* path.basename(files[0]) of a request, or 'source' for file objects
SourceNames == {"app", "source"}

\* DEPLOYMENT_CONFIG.ZIP_FILE_NAME and DEPLOYMENT_CONFIG.TARGZ_FILE_NAME
ZIP_FILE_NAME == "source.zip"
TARGZ_FILE_NAME == "source.tar.gz"

\* no object / no archive buffer yet
NoArchive == [by |-> 0, content |-> {}]

\* let tempDir; (undefined)
NoDir == << "undefined", 0 >>

\* path.join(tempBaseDir, `${sourceName}-${Date.now()}`)
DirName(sourceName, ms) == << sourceName, ms >>

\* a request that has not started its strategy yet
NewTask(strategy, sourceName) ==
  [pc |-> IF strategy = "direct" THEN "direct_mkdir" ELSE "build_zip",
   path |-> strategy, sourceName |-> sourceName, dir |-> NoDir,
   tempDir |-> NoDir, archive |-> NoArchive, consumed |-> NoArchive,
   failed |-> FALSE]

InitConcurrent ==
  /\ req = [op |-> "concurrentDeploys"]
  /\ pc = "concurrent"
  /\ outcome = "running"
  /\ calls = << >>
  /\ progress = << >>
  /\ retries = 0
  /\ error = NoError
  /\ dryRunError = NoError
  /\ clients = TRUE
  /\ meta = NoMeta
  /\ path = "none"
  /\ run = 0
  /\ exists = FALSE
  /\ invokerIamDisabled = FALSE
  /\ serviceExists = FALSE
  /\ tempDir = 0
  /\ fsDirs = {}
  /\ archiveMiB = 0
  /\ polls = 0
  /\ buildStatus = "none"
  /\ producedBy = "none"
  /\ ClockIdle
  /\ PreflightIdle
  /\ tasks \in [Tasks -> { NewTask(st, sn) :
                             st \in {"direct", "build"}, sn \in SourceNames }]
  /\ bucket = [name \in {ZIP_FILE_NAME, TARGZ_FILE_NAME} |-> NoArchive]
  /\ staged = {}
  /\ clientCache = {}
  /\ getClientCalls = << >>

\* what a step of one request leaves alone
OthersUnchanged ==
  UNCHANGED << req, dryRunError, pc, outcome, clients, calls, progress,
               retries, error, meta, path, run, exists, invokerIamDisabled,
               serviceExists, tempDir, archiveMiB, polls, buildStatus,
               producedBy, wake, preflightVars, clientCache,
               getClientCalls >>

\* a millisecond passes
Tick ==
  /\ req.op = "concurrentDeploys"
  /\ now < MaxClock
  /\ now' = now + 1
  /\ OthersUnchanged
  /\ UNCHANGED << fsDirs, concurrentVars >>

\* prepareSourceDirectory: const tempDir = path.join(tempBaseDir,
\* `${sourceName}-${Date.now()}`); await fsp.mkdir(tempDir, {recursive: true})
\* (no error if the directory exists already)
MakeStagingDirectory(t) ==
  /\ tasks[t].pc = "direct_mkdir"
  /\ LET dir == DirName(tasks[t].sourceName, now)
     IN /\ fsDirs' = fsDirs \cup {dir}
        /\ tasks' = [tasks EXCEPT ![t].dir = dir, ![t].pc = "direct_copy"]
  /\ OthersUnchanged
  /\ UNCHANGED << now, bucket, staged >>

\* prepareSourceDirectory: the copy loop writes the request's files into the
\* directory and returns its name to deployWithZip; the copy throws if the
\* directory is gone, leaving deployWithZip's tempDir undefined
CopyFilesToStagingDirectory(t) ==
  /\ tasks[t].pc = "direct_copy"
  /\ IF tasks[t].dir \in fsDirs
     THEN /\ staged' = staged \cup { << tasks[t].dir, t >> }
          /\ tasks' = [tasks EXCEPT ![t].tempDir = tasks[t].dir,
                                    ![t].pc = "direct_zip"]
     ELSE /\ tasks' = [tasks EXCEPT ![t].failed = TRUE,
                                    ![t].pc = "direct_finally"]
          /\ UNCHANGED staged
  /\ OthersUnchanged
  /\ UNCHANGED << now, fsDirs, bucket >>

\* const archiveBuffer = await zipFiles([tempDir], true, progressCallback):
\* the archive holds whatever the directory holds; it throws if the
\* directory is gone
ZipStagingDirectory(t) ==
  /\ tasks[t].pc = "direct_zip"
  /\ IF tasks[t].tempDir \in fsDirs
     THEN tasks' = [tasks EXCEPT
                      ![t].archive =
                        [by |-> t,
                         content |-> { o \in Tasks :
                                         << tasks[t].tempDir, o >> \in staged }],
                      ![t].pc = "direct_upload"]
     ELSE tasks' = [tasks EXCEPT ![t].failed = TRUE,
                                 ![t].pc = "direct_finally"]
  /\ OthersUnchanged
  /\ UNCHANGED << now, fsDirs, bucket, staged >>

\* deployWithBuild: const archiveBuffer = await zipFiles(files, false, ...)
ZipSourceFiles(t) ==
  /\ tasks[t].pc = "build_zip"
  /\ tasks' = [tasks EXCEPT ![t].archive = [by |-> t, content |-> {t}],
                            ![t].path = "build",
                            ![t].pc = "build_upload"]
  /\ OthersUnchanged
  /\ UNCHANGED << now, fsDirs, bucket, staged >>

\* the object name the strategy uploads to and deploys from
ArchiveName(strategy) ==
  IF strategy = "direct" THEN TARGZ_FILE_NAME ELSE ZIP_FILE_NAME

\* await uploadToStorageBucket(context, bucket, archiveBuffer, archiveName)
UploadArchive(t) ==
  /\ tasks[t].pc \in {"direct_upload", "build_upload"}
  /\ bucket' = [bucket EXCEPT ![ArchiveName(tasks[t].path)] = tasks[t].archive]
  /\ tasks' = [tasks EXCEPT ![t].pc = IF tasks[t].path = "direct"
                                      THEN "direct_deploy"
                                      ELSE "build_trigger"]
  /\ OthersUnchanged
  /\ UNCHANGED << now, fsDirs, staged >>

\* deployToCloudRun with the container of
\* createDirectSourceDeploymentContainer({ bucketName, fileName: archiveName }):
\* the revision takes the object of that name as it is now
DeployDirectRevision(t) ==
  /\ tasks[t].pc = "direct_deploy"
  /\ tasks' = [tasks EXCEPT ![t].consumed = bucket[TARGZ_FILE_NAME],
                            ![t].pc = "direct_finally"]
  /\ OthersUnchanged
  /\ UNCHANGED << now, fsDirs, bucket, staged >>

\* finally { await cleanupTempDirectory(tempDir) }: nothing if tempDir is
\* undefined or absent, else fsp.rm(dirPath, { recursive: true, force: true });
\* then deploy returns the service, or catches the failure and goes on to
\* deployWithBuild
CleanupStagingDirectory(t) ==
  /\ tasks[t].pc = "direct_finally"
  /\ IF tasks[t].tempDir # NoDir /\ tasks[t].tempDir \in fsDirs
     THEN /\ fsDirs' = fsDirs \ {tasks[t].tempDir}
          /\ staged' = { f \in staged : f[1] # tasks[t].tempDir }
     ELSE UNCHANGED << fsDirs, staged >>
  /\ tasks' = [tasks EXCEPT ![t].pc = IF tasks[t].failed THEN "build_zip"
                                      ELSE "done"]
  /\ OthersUnchanged
  /\ UNCHANGED << now, bucket >>

\* triggerCloudBuild(..., bucketName, archiveName, ...): submitBuild with
\* storageSource { bucket, object: sourceBlobName }; the build takes the
\* object of that name as it is now
BuildFromBucket(t) ==
  /\ tasks[t].pc = "build_trigger"
  /\ tasks' = [tasks EXCEPT ![t].consumed = bucket[ZIP_FILE_NAME],
                            ![t].pc = "done"]
  /\ OthersUnchanged
  /\ UNCHANGED << now, fsDirs, bucket, staged >>

NextConcurrent ==
  \/ Tick
  \/ \E t \in Tasks : MakeStagingDirectory(t)
  \/ \E t \in Tasks : CopyFilesToStagingDirectory(t)
  \/ \E t \in Tasks : ZipStagingDirectory(t)
  \/ \E t \in Tasks : ZipSourceFiles(t)
  \/ \E t \in Tasks : UploadArchive(t)
  \/ \E t \in Tasks : DeployDirectRevision(t)
  \/ \E t \in Tasks : CleanupStagingDirectory(t)
  \/ \E t \in Tasks : BuildFromBucket(t)

SpecConcurrent == InitConcurrent /\ [][NextConcurrent]_vars

\* request t is within a direct-source attempt that has named its directory
InAttempt(t) ==
  tasks[t].pc \in {"direct_copy", "direct_zip", "direct_upload",
                   "direct_deploy", "direct_finally"}

\* C29: the archive a request's build or direct revision takes from the
\* bucket is the archive this same request produced and uploaded, whatever
\* the interleaving of the deploy requests of the project.
C29_RequestConsumesOwnArchive ==
  req.op = "concurrentDeploys" =>
    \A t \in Tasks :
      tasks[t].consumed # NoArchive =>
        /\ tasks[t].consumed.by = t
        /\ tasks[t].consumed = tasks[t].archive

\* C30: two direct-source attempts that overlap in time have different
\* staging directories; the directory of an attempt holds only its own
\* files and is there until its own cleanup removes it.
C30_StagingDirectoryIsExclusive ==
  req.op = "concurrentDeploys" =>
    /\ \A t \in Tasks, u \in Tasks :
         (t # u /\ InAttempt(t) /\ InAttempt(u)) =>
           tasks[t].dir # tasks[u].dir
    /\ \A t \in Tasks :
         /\ tasks[t].archive.content \subseteq {t}
         /\ tasks[t].pc \in {"direct_zip", "direct_upload", "direct_deploy"} =>
              tasks[t].tempDir \in fsDirs


----------------------------------------------------------------------------
(* Remote calls in flight within one request *)

\* indexes of the calls that have been issued and not yet answered
InFlight == { i \in DOMAIN calls : calls[i].res = "pending" }

\* indexes of the real createService / updateService of deployWithBuild
BuildPathMutations ==
  { i \in DOMAIN calls : /\ IsMutation(calls[i]) /\ ~calls[i].dry
                         /\ calls[i].by = "deployToCloudRun"
                         /\ calls[i].path = "build" }

\* indexes of the polls of the request's build
BuildPolls == { i \in DOMAIN calls : calls[i].call = "getBuild" }

(* C31: within one request at most one remote call is in flight, and it is *)
(* the one issued last; on the build path a real createService /           *)
(* updateService is issued only after every poll of the build was          *)
(* answered and the last one reported SUCCESS, and it deploys the image    *)
(* named in the result of that build.                                      *)
C31_BuildPollingNeverOverlapsServiceCreation ==
  /\ Cardinality(InFlight) <= 1
  /\ InFlight \subseteq {Len(calls)}
  /\ \A i \in BuildPathMutations :
       /\ buildStatus = "SUCCESS"
       /\ BuildPolls # {}
       /\ \A j \in BuildPolls : j < i /\ calls[j].res = "ok"
       /\ calls[i].containers = "results.images[0].name"

\* the built image is being deployed after a build that was polled twice
C31_Witness ==
  /\ polls = 2
  /\ \E i \in BuildPathMutations : InFlight = {i}

----------------------------------------------------------------------------
(* makeFileDeploymentMetadata and the choice of the strategy, alone: the   *)
(* files argument is any single folder or flat file list over the names    *)
(* above, on a filesystem that is case sensitive or not                    *)

FolderInputs ==
  { << Dir(c) >> : c \in { d \in SUBSET Paths : Cardinality(d) <= MaxFolderFiles } }

ListEntries ==
  { Listed(q) : q \in Paths } \cup { FileObject(q) : q \in Paths \cup { << >> } }

ListInputs == UNION { [1..k -> ListEntries] : k \in 1..MaxListed }

InitMetadata ==
  /\ req \in [op : {"makeFileDeploymentMetadata"}, projectId : {TRUE},
               serviceName : {TRUE},
               files : { Files("array", e, cs) :
                           e \in FolderInputs \cup ListInputs, cs \in BOOLEAN },
               imageUrl : {FALSE}, skipIamCheck : {FALSE}]
  /\ pc = "metadata"
  /\ outcome = "running"
  /\ calls = << >>
  /\ progress = << >>
  /\ retries = 0
  /\ error = NoError
  /\ DeployIdle
  /\ ClockIdle
  /\ PreflightIdle

\* the study ends where deployWithZip or deployWithBuild would begin
StrategyChosen ==
  /\ pc \in {"zip_prepare", "build_bucket"}
  /\ pc' = "done"
  /\ UNCHANGED << clockVars, preflightVars, concurrentVars >>
  /\ UNCHANGED << req, dryRunError, outcome, clients, calls, progress,
                  retries, error, meta, path, run, exists, invokerIamDisabled,
                  serviceExists, tempDir, fsDirs, archiveMiB, polls,
                  buildStatus, producedBy >>

NextMetadata ==
  \/ SelectDeploymentPath
  \/ StrategyChosen

SpecMetadata == InitMetadata /\ [][NextMetadata]_vars

(* Reading the input *)

\* the metadata of the request's files has been computed
MetadataKnown == pc # "metadata" /\ path \in {"direct", "build"}

\* the input is one folder / a flat list of files
SingleFolder ==
  Len(req.files.entries) = 1 /\ req.files.entries[1].kind = "dir"

\* names of the files at the root of the source: of the folder, or of the
\* directory the listed files are staged in (listed paths by base name,
\* file objects under their filename)
RootNames ==
  IF SingleFolder
  THEN { q[1] : q \in { c \in req.files.entries[1].contents : Len(c) = 1 } }
  ELSE { req.files.entries[i].path[Len(req.files.entries[i].path)] :
           i \in { k \in DOMAIN req.files.entries :
                     \/ req.files.entries[k].kind = "string"
                     \/ Len(req.files.entries[k].path) = 1 } }

\* base names of the entries of a flat list
ListedBaseNames ==
  { req.files.entries[i].path[Len(req.files.entries[i].path)] :
      i \in { k \in DOMAIN req.files.entries : req.files.entries[k].path # << >> } }

(* C32: checkIfDockerFileExists is true exactly when a file whose name is  *)
(* Dockerfile in any mix of upper and lower case is at the root of a       *)
(* single-folder input, or is the base name of an entry of a flat list; a  *)
(* Dockerfile below the root of a folder does not count.                   *)
C32_DockerfileFoundIffPresentAnyCase ==
  MetadataKnown =>
    (meta.hasDockerfile <=>
       IF SingleFolder
       THEN RootNames \cap {"Dockerfile", "dockerfile", "DOCKERFILE"} # {}
       ELSE ListedBaseNames \cap {"Dockerfile", "dockerfile", "DOCKERFILE"} # {})

----------------------------------------------------------------------------
(* The client factories of lib/clients.js: getRunClient, getStorageClient, *)
(* ... compute a key and call getClient, which keeps one client per        *)
(* service and key in the module-level object clients                      *)

\* two of the nine maps of const clients
Services == {"run", "storage"}

\* strings are sequences of characters, so that projectId + accessToken is
\* their concatenation
GCLOUD_AUTH == << "gcloud_auth" >>
ProjectIds == { << "p" >>, << "p", "x" >> }
AccessTokens == { GCLOUD_AUTH, << "x" >> }

\* accessToken !== GCLOUD_AUTH ? projectId + accessToken : projectId
keyGenerator(projectId, accessToken) ==
  IF accessToken # GCLOUD_AUTH THEN projectId \o accessToken ELSE projectId

\* clients[service].has(key), .get(key) and .set(key, client) on a cache
MapHas(cache, service, key) ==
  \E e \in cache : e.service = service /\ e.key = key

MapGet(cache, service, key) ==
  (CHOOSE e \in cache : e.service = service /\ e.key = key).client

MapSet(cache, service, key, client) ==
  { e \in cache : ~(e.service = service /\ e.key = key) }
    \cup { [service |-> service, key |-> key, client |-> client] }

\* instances are numbered in the order of their construction
Constructed == { i \in DOMAIN getClientCalls : getClientCalls[i].made # 0 }

\* positions of the calls whose await loadClient() is pending
Loading == { i \in DOMAIN getClientCalls : getClientCalls[i].pc = "loading" }

InitClients ==
  /\ req = [op |-> "getClient"]
  /\ pc = "clients"
  /\ outcome = "running"
  /\ calls = << >>
  /\ progress = << >>
  /\ retries = 0
  /\ error = NoError
  /\ DeployIdle
  /\ ClockIdle
  /\ PreflightIdle

\* what a step of getClient leaves alone
ClientsFrame ==
  /\ UNCHANGED << clockVars, preflightVars, tasks, bucket, staged >>
  /\ UNCHANGED << req, dryRunError, pc, outcome, clients, calls, progress,
                  retries, error, meta, path, run, exists, invokerIamDisabled,
                  serviceExists, tempDir, fsDirs, archiveMiB, polls,
                  buildStatus, producedBy >>

\* mutant: the cache is not consulted, every call loads and constructs
GetClientEnter_neverCached(service, projectId, accessToken) ==
  /\ pc = "clients"
  /\ Len(getClientCalls) < MaxCalls
  /\ LET key == keyGenerator(projectId, accessToken)
         call == [service |-> service, projectId |-> projectId,
                  accessToken |-> accessToken, key |-> key]
     IN getClientCalls' = Append(getClientCalls,
                            call @@ [pc |-> "loading", made |-> 0, result |-> 0])
  /\ UNCHANGED clientCache
  /\ ClientsFrame

\* a factory is called: const key = keyGenerator(projectId, accessToken);
\* getClient runs up to its first await: with the key cached it returns
\* clients[service].get(key), else it awaits loadClient()
GetClientEnter(service, projectId, accessToken) ==
  /\ pc = "clients"
  /\ Len(getClientCalls) < MaxCalls
  /\ LET key == keyGenerator(projectId, accessToken)
         call == [service |-> service, projectId |-> projectId,
                  accessToken |-> accessToken, key |-> key]
     IN getClientCalls' = Append(getClientCalls,
          IF MapHas(clientCache, service, key)
          THEN call @@ [pc |-> "returned", made |-> 0,
                        result |-> MapGet(clientCache, service, key)]
          ELSE call @@ [pc |-> "loading", made |-> 0, result |-> 0])
  /\ UNCHANGED clientCache
  /\ ClientsFrame

\* loadClient() resolves: clients[service].set(key, new ClientClass(...));
\* return clients[service].get(key)
GetClientLoaded(c) ==
  /\ c \in Loading
  /\ LET call == getClientCalls[c]
         client == Cardinality(Constructed) + 1
         cache == MapSet(clientCache, call.service, call.key, client)
     IN /\ clientCache' = cache
        /\ getClientCalls' =
             [getClientCalls EXCEPT ![c].pc = "returned", ![c].made = client,
                ![c].result = MapGet(cache, call.service, call.key)]
  /\ ClientsFrame

\* loadClient() rejects (the dynamic import fails): getClient throws
LoadClientRejects(c) ==
  /\ c \in Loading
  /\ getClientCalls' = [getClientCalls EXCEPT ![c].pc = "threw"]
  /\ UNCHANGED clientCache
  /\ ClientsFrame

\* a caller that awaits each call before it makes the next
GetClientAwaited ==
  /\ Loading = {}
  /\ \E service \in Services, projectId \in ProjectIds,
        accessToken \in AccessTokens :
       GetClientEnter(service, projectId, accessToken)

\* callers that run at the same time (requests of one server process)
GetClientConcurrently ==
  \E service \in Services, projectId \in ProjectIds,
     accessToken \in AccessTokens :
    GetClientEnter(service, projectId, accessToken)

NextClientsSequential ==
  \/ GetClientAwaited
  \/ \E c \in DOMAIN getClientCalls : GetClientLoaded(c)
  \/ \E c \in DOMAIN getClientCalls : LoadClientRejects(c)

NextClients ==
  \/ GetClientConcurrently
  \/ \E c \in DOMAIN getClientCalls : GetClientLoaded(c)
  \/ \E c \in DOMAIN getClientCalls : LoadClientRejects(c)

SpecClientsSequential == InitClients /\ [][NextClientsSequential]_vars

SpecClients == InitClients /\ [][NextClients]_vars

(* Reading the calls *)

\* positions of the calls that returned a client
Returned == { i \in DOMAIN getClientCalls : getClientCalls[i].pc = "returned" }

SameServiceAndKey(i, j) ==
  /\ getClientCalls[i].service = getClientCalls[j].service
  /\ getClientCalls[i].key = getClientCalls[j].key

(* C34: with the factory calls made one after the other, two calls with    *)
(* the same service and key returned the same instance, two calls that     *)
(* differ in service or key returned different instances, and the cache    *)
(* still holds for each call the instance it returned (none was replaced   *)
(* or evicted).                                                            *)
C34_SequentialCallsShareOneInstancePerKey ==
  /\ \A i, j \in Returned :
       SameServiceAndKey(i, j) <=>
         getClientCalls[i].result = getClientCalls[j].result
  /\ \A i \in Returned :
       \E e \in clientCache :
         /\ e.service = getClientCalls[i].service
         /\ e.key = getClientCalls[i].key
         /\ e.client = getClientCalls[i].result

\* three calls returned: two for one key share the instance the first one
\* constructed, the third has another key and another instance
C34_Witness ==
  /\ Returned = {1, 2, 3}
  /\ SameServiceAndKey(1, 2)
  /\ getClientCalls[1].made # 0 /\ getClientCalls[2].made = 0
  /\ getClientCalls[1].result = getClientCalls[2].result
  /\ ~SameServiceAndKey(1, 3)
  /\ getClientCalls[3].result # getClientCalls[1].result

(* C36: however the calls of getClient interleave, at most one client is   *)
(* constructed per service and key, and all calls for one service and key  *)
(* returned the same instance.                                             *)
C36_ConcurrentCallsConstructOneClient ==
  /\ \A i, j \in Constructed : SameServiceAndKey(i, j) => i = j
  /\ \A i, j \in Returned :
       SameServiceAndKey(i, j) =>
         getClientCalls[i].result = getClientCalls[j].result

----------------------------------------------------------------------------
(* Claims about the remote calls of ensureApisEnabled *)

\* the calls of the preflight that go to a remote service
PreflightRemoteCalls ==
  {"getService", "enableService", "isBillingEnabled", "listBillingAccounts",
   "attachProjectToBillingAccount"}

\* the last read of the billing status issued before position i of the log
LastBillingReadBefore(i) ==
  LET R == { j \in PfAt("isBillingEnabled") : j < i }
  IN IF R = {} THEN 0 ELSE MaxOf(R)

(* C35: every remote call of the preflight is issued through                *)
(* callWithRetry, that is, it is pending at a position where a code-7       *)
(* failure is retried; and no call has had a code-7 failure caught without  *)
(* a retry.                                                                 *)
C35_EveryRemoteCallGoesThroughCallWithRetry ==
  [][InPreflight =>
       \A i \in DOMAIN calls' :
         (i \notin DOMAIN calls /\ calls'[i].call \in PreflightRemoteCalls) =>
           /\ calls'[i].res = "pending"
           /\ pc' \in WrappedWait
           /\ "thrown" \in DOMAIN calls'[i] => calls'[i].thrown.code # 7]_vars

(* C37: the preflight lists billing accounts and attaches one only after a *)
(* read of the billing status that succeeded and reported disabled, and it *)
(* never issues an attach for a project whose billing is enabled.          *)
C37_NoAttachUnlessBillingReadDisabled ==
  InPreflight =>
    /\ pc = "pf_attach" => ~project.billingEnabled
    /\ \A i \in PfAt("listBillingAccounts")
                \cup PfAt("attachProjectToBillingAccount") :
         /\ LastBillingReadBefore(i) > 0
         /\ calls[LastBillingReadBefore(i)].thrown = NoError
         /\ calls[LastBillingReadBefore(i)].res = "disabled"

----------------------------------------------------------------------------
(* C38: in a request with skipIamCheck false no createService /            *)
(* updateService payload, validateOnly or not, carries invokerIamDisabled, *)
(* the flag is never dropped after a failed dry run, and a                 *)
(* deployToCloudRun execution whose dry run failed, whatever the code and  *)
(* message of the failure, issues no real mutation.                        *)
C38_WithoutSkipIamCheckEveryDryRunFailureIsFatal ==
  (req.op \in {"deploy", "deployImage"} /\ ~req.skipIamCheck) =>
    /\ \A i \in DOMAIN calls : IsMutation(calls[i]) => ~calls[i].iam
    /\ ~HasEvent("warn", "withoutInvokerIamDisabled")
    /\ \A r \in 1..run :
         (\E j \in DryRuns(r) : calls[j].res = "fail") => RealMutations(r) = {}
    /\ (dryRunError # NoError /\ pc # "run_dry_catch") =>
         /\ pc = "run_catch"
         /\ error = Wrapped(dryRunError)

\* a dry run that failed with code 3 and an IAM policy violation message is
\* on its way to the caller of deployToCloudRun
C38_Witness ==
  /\ req.op \in {"deploy", "deployImage"}
  /\ ~req.skipIamCheck
  /\ pc = "run_catch"
  /\ dryRunError = [code |-> 3, msg |-> "iam policy violation"]
  /\ error = Wrapped(dryRunError)
  /\ RealMutations(run) = {}

----------------------------------------------------------------------------
(* Termination of triggerCloudBuild *)

\* submitBuild was answered: the build exists
Submitted == \E i \in BuildAt("submitBuild") : calls[i].res = "ok"

(* C39: once the build is submitted, triggerCloudBuild eventually returns   *)
(* or throws, given that calls are answered and the build is reported       *)
(* terminal at some poll; and it leaves the polling loop only when a poll   *)
(* reported a terminal status or failed, never by itself.                   *)
C39_BuildRunsToItsTerminalState ==
  /\ (req.op = "triggerCloudBuild" /\ Submitted) ~> (pc = "done")
  /\ [][(req.op = "triggerCloudBuild" /\ InPollingLoop /\ ~InPollingLoop') =>
          /\ pc = "tcb_poll_wait"
          /\ LastStatus' \in TerminalStatuses \cup {"fail"}]_vars

\* triggerCloudBuild returned a build that was reported queued, then
\* working, then successful
C39_Witness ==
  /\ req.op = "triggerCloudBuild"
  /\ pc = "done"
  /\ outcome = "resolved"
  /\ Cardinality(AnsweredPolls) = 3
  /\ \E i, j \in AnsweredPolls :
       i < j /\ calls[i].res = "QUEUED" /\ calls[j].res = "WORKING"

----------------------------------------------------------------------------
(* lib/middleware/oauth.js: oauthMiddleware on one HTTP request.  The    *)
(* request is req; what the middleware does to the response and to the   *)
(* chain (next(), res.status(401).json()) is written to the call log.   *)

TOOLS_CALL_METHOD == "tools/call"

\* process.env.OAUTH_ENABLED; "unset" is undefined
OAuthEnabledValues == {"unset", "false", "true"}

\* process.env.GOOGLE_OAUTH_AUDIENCE; "unset" is undefined
AudienceValues == {"unset", "", "expected-audience"}

\* req.body: undefined unless a body parser filled it; its method may be
\* missing
Bodies ==
  { [present |-> FALSE, method |-> "unset"] } \cup
  [present : {TRUE}, method : {"unset", "other/method", TOOLS_CALL_METHOD}]

\* req.headers.authorization; "unset" is undefined
AuthorizationValues == {"unset", "Bearer token"}

\* client.getTokenInfo: it throws, or it returns the token's aud ("unset":
\* the token info has no aud)
TokenInfoResults == {"throws", "unset", "expected-audience", "other-audience"}

OAuthRequests ==
  [op : {"oauthMiddleware"}, OAUTH_ENABLED : OAuthEnabledValues,
   GOOGLE_OAUTH_AUDIENCE : AudienceValues, body : Bodies,
   authorization : AuthorizationValues]

\* if (audience && ...): undefined and '' are falsy
Truthy(audience) == audience \notin {"unset", ""}

InitOAuth ==
  /\ req \in OAuthRequests
  /\ pc = "oauth_enter"
  /\ outcome = "running"
  /\ calls = << >>
  /\ progress = << >>
  /\ retries = 0
  /\ error = NoError
  /\ DeployIdle
  /\ ClockIdle
  /\ PreflightIdle

\* what a step of the middleware leaves alone
OAuthFrame ==
  /\ UNCHANGED << clockVars, preflightVars, concurrentVars >>
  /\ UNCHANGED << req, dryRunError, clients, progress, retries, meta, path,
                  run, exists, invokerIamDisabled, serviceExists, tempDir,
                  fsDirs, archiveMiB, polls, buildStatus, producedBy >>

\* next()
NextCalled == Call("next", "oauthMiddleware", FALSE, FALSE, "ok")

\* res.status(401).json({...})
Responded401 == Call("res.status", "oauthMiddleware", FALSE, FALSE, "401")

\* if (process.env.OAUTH_ENABLED !== 'true' ||
\*     req.body.method !== TOOLS_CALL_METHOD) return next();
\* The condition is evaluated outside the try block: reading .method of an
\* undefined req.body throws a TypeError that rejects the async function.
OAuthMiddlewareEnter ==
  /\ pc = "oauth_enter"
  /\ IF req.OAUTH_ENABLED # "true"
     THEN /\ calls' = Append(calls, NextCalled)
          /\ pc' = "done"
          /\ outcome' = "resolved"
          /\ UNCHANGED error
     ELSE IF ~req.body.present
     THEN /\ error' = [code |-> 0, msg |-> "TypeError"]
          /\ pc' = "done"
          /\ outcome' = "rejected"
          /\ UNCHANGED calls
     ELSE IF req.body.method # TOOLS_CALL_METHOD
     THEN /\ calls' = Append(calls, NextCalled)
          /\ pc' = "done"
          /\ outcome' = "resolved"
          /\ UNCHANGED error
     ELSE /\ pc' = "oauth_ensure"
          /\ UNCHANGED << calls, outcome, error >>
  /\ OAuthFrame

\* ensureOAuthTokenInEnv up to its await: a missing header throws
EnsureOAuthTokenInEnv ==
  /\ pc = "oauth_ensure"
  /\ IF req.authorization = "unset"
     THEN /\ error' = [code |-> 0, msg |-> "No authorization header"]
          /\ pc' = "oauth_catch"
     ELSE /\ pc' = "oauth_verify"
          /\ UNCHANGED error
  /\ UNCHANGED << calls, outcome >>
  /\ OAuthFrame

\* verifyAccessToken: getTokenInfo throws or answers; with an audience
\* configured, a different aud throws 'Invalid audience'
VerifyAccessToken ==
  /\ pc = "oauth_verify"
  /\ \E tokenInfo \in TokenInfoResults :
       /\ calls' = Append(calls, Call("getTokenInfo", "verifyAccessToken",
                                      FALSE, FALSE, tokenInfo))
       /\ IF tokenInfo = "throws"
          THEN /\ error' = [code |-> 0, msg |-> "other"]
               /\ pc' = "oauth_catch"
          ELSE IF Truthy(req.GOOGLE_OAUTH_AUDIENCE)
                  /\ tokenInfo # req.GOOGLE_OAUTH_AUDIENCE
          THEN /\ error' = [code |-> 0, msg |-> "Invalid audience"]
               /\ pc' = "oauth_catch"
          ELSE /\ pc' = "oauth_next"
               /\ UNCHANGED error
  /\ UNCHANGED outcome
  /\ OAuthFrame

\* try { await ensureOAuthTokenInEnv(req, res); next(); }
OAuthNext ==
  /\ pc = "oauth_next"
  /\ calls' = Append(calls, NextCalled)
  /\ pc' = "done"
  /\ outcome' = "resolved"
  /\ UNCHANGED error
  /\ OAuthFrame

\* catch (error) { res.status(401).json({...}) }
OAuthCatch ==
  /\ pc = "oauth_catch"
  /\ calls' = Append(calls, Responded401)
  /\ pc' = "done"
  /\ outcome' = "resolved"
  /\ UNCHANGED error
  /\ OAuthFrame

NextOAuth ==
  \/ OAuthMiddlewareEnter
  \/ EnsureOAuthTokenInEnv
  \/ VerifyAccessToken
  \/ OAuthNext
  \/ OAuthCatch

SpecOAuth == InitOAuth /\ [][NextOAuth]_vars

(* Reading the request's log *)

NextCalls == { i \in DOMAIN calls : calls[i].call = "next" }

Responses401 ==
  { i \in DOMAIN calls : calls[i].call = "res.status" /\ calls[i].res = "401" }

\* the bearer token was verified, the audience included when one is configured
TokenVerified ==
  \E i \in DOMAIN calls :
    /\ calls[i].call = "getTokenInfo"
    /\ calls[i].res # "throws"
    /\ Truthy(req.GOOGLE_OAUTH_AUDIENCE)
         => calls[i].res = req.GOOGLE_OAUTH_AUDIENCE

\* the request is a tools/call
IsToolsCall == req.body.present /\ req.body.method = TOOLS_CALL_METHOD

\* C40: every request handled by oauthMiddleware ends with exactly one of
\* next() and a 401 response; next() is called if and only if OAuth is
\* disabled, or the request is not a tools/call, or its bearer token was
\* verified; otherwise the response is 401 and next() is never called.
C40_ExactlyOneOfNextAnd401 ==
  (req.op = "oauthMiddleware" /\ pc = "done") =>
    /\ Cardinality(NextCalls) + Cardinality(Responses401) = 1
    /\ Cardinality(NextCalls) = 1 <=>
         \/ req.OAUTH_ENABLED # "true"
         \/ ~IsToolsCall
         \/ TokenVerified

====
